---- MODULE Spec2Model ----
(***************************************************************************)
(* Interactive scripts of the portfolio site.                              *)
(*                                                                         *)
(* Three script variants are modelled, one page load each:                 *)
(*   "topnav" : src/script_topnav_backup.js (project panels, certificate   *)
(*              panel, hamburger menu, scroll-driven navigation, theme,    *)
(*              reveal on scroll)                                          *)
(*   "new"    : src/script_new.js (certificate panel, sidebar menu,        *)
(*              scroll-driven navigation, reveal on scroll)                *)
(*   "current": the script listed in src/REFACTORING_SUMMARY.md (sidebar   *)
(*              and navbar menu, theme toggle, reveal on scroll)           *)
(*                                                                         *)
(* The browser runs one listener at a time, so one action is one event     *)
(* dispatched to all of its listeners (or one timer callback).  A handler  *)
(* is an operator from a snapshot of the page state (a record) to the      *)
(* snapshot it leaves; an action composes the listeners in dispatch order  *)
(* (target first, document last).                                          *)
(***************************************************************************)
EXTENDS Integers, Sequences, FiniteSets, TLC

VARIABLES
    script,               \* which script the page loaded
    closedPanelsRendered, \* stylesheet: are closed panels still rendered?
    hasCertModal,         \* markup: is there a #certificate-modal?
    hasCertImage,         \* markup: is there a #certificate-image?
    innerWidth,           \* window.innerWidth
    active,               \* project panel -> has class 'active'
    ariaHidden,           \* project panel -> aria-hidden attribute
    overflow,             \* document.body.style.overflow
    activeModal,          \* let activeModal
    lastFocusedElement,   \* let lastFocusedElement
    focus,                \* document.activeElement
    timers,               \* project panel -> pending 100 ms focus timers
    traps,                \* project panel -> installed handleFocusTrap listeners
    menuActive,           \* .nav-menu / .sidebar has class 'active'
    hamburgerActive,      \* .hamburger has class 'active'
    ariaExpanded,         \* .hamburger aria-expanded
    menuIcon,             \* script_new: glyph class of the toggle's <i>
    certActive,           \* #certificate-modal has class 'active'
    certAriaHidden,       \* #certificate-modal aria-hidden
    certSrc,              \* #certificate-image src
    certAlt,              \* #certificate-image alt
    lastEvent,            \* history: kind of the event handled last
    threw,                \* history: a listener of that event threw
    restored,             \* history: the remembered element of the close being settled
    navSections,          \* markup: the sections, in document order
    innerHeight,          \* window.innerHeight
    scrollY,              \* window.scrollY
    activeLinks,          \* navigation entries with class 'active'
    navTimer,             \* the debounced scroll handler has a pending timer
    navComputed,          \* history: the active entry has been recomputed
    navCurrent,           \* history: current / currentSection of the last recompute
    navBurstY,            \* history: scroll position at the first event of the burst
    debTimers,            \* the browser's pending timers set by debounced wrappers
    debTimeout,           \* wrapper -> its closure variable 'timeout'
    debSinceCall,         \* history: wrapper -> ticks since its last call
    debSinceRun,          \* history: wrapper -> ticks since its wrapped function ran
    debLastArgs,          \* history: wrapper -> arguments of its last call
    debRun,               \* history: the last run of a wrapped function
    fName,                \* #name value
    fEmail,               \* #email value
    fMessage,             \* #message value
    location,             \* window.location.href
    defaultPrevented,     \* the submit event's default action was prevented
    formLog,              \* history: the steps of the last submit handler run
    submits,              \* history: submit events so far
    notices,              \* the .custom-alert elements in the document, in order
    alertTimers,          \* pending timers set by showAlert
    slideDownStyles,      \* style elements with the slideDown keyframes in head
    navbarNavActive,      \* "current" script: .navbar-nav has class 'active'
    trapRun,              \* history: the trap listeners' part in the last event
    clickPrevented,       \* history: preventDefault was called on the last click
                          \* (cleared when a later event is handled)
    bare,                 \* markup: the panels without a focusable descendant
    windowWidth,          \* let windowWidth of the resize handler
    resizeTimer,          \* the debounced resize handler has a pending timer
    storage,              \* localStorage: the theme item, {} when absent
    dataTheme,            \* data-theme attribute of the document element
    themeIcon,            \* glyph class of the .theme-toggle icon
    themeLast,            \* history: the latest run of setTheme calls
    revAttached,          \* the reveal watcher has been given its elements
    revObserved,          \* the elements the reveal watcher observes
    revIntersecting,      \* watched element -> it intersects the watcher's root
    revRevealed,          \* the elements that carry the revealed class
    revQueue,             \* the watcher's queued entries, oldest first
    revScrolled,          \* history: the user has scrolled
    btnDisplay,           \* style.display of the scroll-to-top button
    btnVisible,           \* the button carries the class 'visible'
    btnAriaHidden,        \* aria-hidden of the button, NULL when absent
    scrollTimeout,        \* the button's scroll listener has a pending timer
    smoothToTop           \* a smooth scroll to the top is under way

menuVars == <<windowWidth, resizeTimer>>

themeVars == <<storage, dataTheme, themeIcon, themeLast>>

revealVars == <<revAttached, revObserved, revIntersecting, revRevealed,
                revQueue, revScrolled>>

topVars == <<btnDisplay, btnVisible, btnAriaHidden, scrollTimeout, smoothToTop>>

\* What the dialog, navigation, wrapper, form and notice events leave alone.
extVars == <<bare, menuVars, themeVars, revealVars, topVars>>

\* The script and the markup and stylesheet it runs against.
pageVars == <<script, closedPanelsRendered, hasCertModal, hasCertImage>>

\* What the click, key and timer handlers of the dialogs and menus write.
handlerVars ==
    <<threw, active, ariaHidden, overflow, activeModal, lastFocusedElement,
      focus, timers, traps, menuActive, hamburgerActive, ariaExpanded,
      menuIcon, certActive, certAriaHidden, certSrc, certAlt, restored,
      navbarNavActive, trapRun, clickPrevented>>

dialogVarsButEvent == <<extVars, pageVars, innerWidth, handlerVars>>

dialogVars == <<dialogVarsButEvent, lastEvent>>

navVars == <<navSections, innerHeight, scrollY, activeLinks, navTimer,
             navComputed, navCurrent, navBurstY>>

debVars == <<debTimers, debTimeout, debSinceCall, debSinceRun, debLastArgs,
             debRun>>

formVars == <<fName, fEmail, fMessage, location, defaultPrevented, formLog,
              submits>>

alertVars == <<notices, alertTimers, slideDownStyles>>

-----------------------------------------------------------------------------
(* Bounds *)

\* Panels are opened at most this many times in one page load (each
\* openModal leaves one more timer and one more keydown listener behind).
MaxOpens == 2

\* Timer handles the browser has to give out at one time.
MaxTimers == 4

\* Notice elements alive at one time, in the document or held by a timer.
MaxNotices == 3

\* Submissions of the contact form in one page load.
MaxSubmits == 2

\* Style elements counted in the document head (the count saturates here).
MaxSheets == 2

-----------------------------------------------------------------------------
(* The page *)

NULL == "null"

\* document.querySelectorAll('.project-modal'): the first panel holds a close
\* button and a link, the second a close button only.
Modals == {"m1", "m2"}

\* Keys of data-certificate attributes in the page: one with an image, one
\* without, and one that names a member of Object.prototype.
CertIds == {"matlab-certificate", "other-certificate", "constructor"}

El(k, m) == [k |-> k, m |-> m]

Body       == El("body", NULL)        \* document.body, also "nothing focused"
Hamburger  == El("hamburger", NULL)   \* .hamburger / .mobile-menu-toggle
NavItem(l) == El("navLink", l)        \* .nav-link / .nav-item l, inside the menu
NavLink    == NavItem("l1")
Trigger(m) == El("trigger", m)        \* [data-modal=m], outside every panel
CloseBtn(m) == El("close", m)         \* .modal-close[data-close-modal] in panel m
PanelLink(m) == El("link", m)         \* a link inside panel m
Overlay(m) == El("overlay", m)        \* [data-close-modal] backdrop of panel m
Content(m) == El("content", m)        \* text inside panel m
CertBtn(c) == El("certBtn", c)        \* .view-certificate-btn[data-certificate=c]
CertClose  == El("certClose", NULL)   \* [data-close-certificate] button
CertContent == El("certContent", NULL) \* the certificate image

PanelKinds == {"close", "link", "overlay", "content"}
CertKinds  == {"certClose", "certContent"}
FocusableKinds == {"hamburger", "navLink", "trigger", "certBtn", "close",
                   "link", "certClose"}

Elements ==
    {Body, Hamburger, NavLink, CertClose, CertContent}
    \cup {Trigger(m) : m \in Modals}
    \cup {CloseBtn(m) : m \in Modals}
    \cup {PanelLink("m1")}
    \cup {Overlay(m) : m \in Modals}
    \cup {Content(m) : m \in Modals}
    \cup {CertBtn(c) : c \in CertIds}

\* The focusable elements in document order (the sequential focus order).
TabOrder ==
    <<Hamburger, NavLink, Trigger("m1"), Trigger("m2"),
      CertBtn("matlab-certificate"), CertBtn("other-certificate"),
      CloseBtn("m1"), PanelLink("m1"), CloseBtn("m2"), CertClose>>

InPanel(e, m) == e.k \in PanelKinds /\ e.m = m

\* The snapshot the handlers work on.
St == [active |-> active, ariaHidden |-> ariaHidden, overflow |-> overflow,
       activeModal |-> activeModal, lastFocusedElement |-> lastFocusedElement,
       focus |-> focus, timers |-> timers, traps |-> traps,
       menuActive |-> menuActive, hamburgerActive |-> hamburgerActive,
       ariaExpanded |-> ariaExpanded, menuIcon |-> menuIcon,
       certActive |-> certActive, certAriaHidden |-> certAriaHidden,
       certSrc |-> certSrc, certAlt |-> certAlt,
       threw |-> threw, restored |-> restored, activeLinks |-> activeLinks,
       navbarNavActive |-> navbarNavActive, trapRun |-> trapRun,
       clickPrevented |-> clickPrevented]

\* Is element e rendered in snapshot s?  A closed panel's content is rendered
\* only when the stylesheet (not part of the scripts) leaves it so.
Rendered(s, e) ==
    IF e.k \in PanelKinds THEN s.active[e.m] \/ closedPanelsRendered
    ELSE IF e.k \in CertKinds
    THEN /\ hasCertModal
         /\ e.k = "certContent" => hasCertImage
         /\ s.certActive \/ closedPanelsRendered
    ELSE TRUE

\* Can e take focus?  The controls can, unless they sit in a panel whose
\* markup has no focusable descendant (its close control is then not a
\* focusable element); the content of such a panel carries tabindex="-1", so
\* it takes focus from a pointer or a script but not from Tab.
Focusable(e) ==
    \/ e.k \in FocusableKinds /\ ~ (e.k \in PanelKinds /\ e.m \in bare)
    \/ e.k = "content" /\ e.m \in bare

\* HTMLElement.focus(): moves focus when e is a rendered focusable element.
Focus(s, e) ==
    IF Focusable(e) /\ Rendered(s, e)
    THEN [s EXCEPT !.focus = e] ELSE s

\* After an event: an element that is no longer rendered loses focus to body.
FocusFixup(s) ==
    IF Rendered(s, s.focus) THEN s ELSE [s EXCEPT !.focus = Body]

-----------------------------------------------------------------------------
(* script_topnav_backup.js: project panels *)

\* null as the value of an element variable, and "no close being settled".
NullEl == El("null", NULL)
NONE == El("none", NULL)

\* trapRun when the last event reached no trap listener.
NoTrap == "none"

\* element.querySelectorAll(focusableSelectors) of a panel, in document order
\* (tabindex="-1" is excluded by the selector).
PanelFocusables(m) ==
    IF m \in bare THEN <<>>
    ELSE IF m = "m1" THEN <<CloseBtn(m), PanelLink(m)>> ELSE <<CloseBtn(m)>>

\* trapFocus(element): removeEventListener is given the closure created by
\* this very call, which was never added, so it removes nothing; one more
\* handleFocusTrap listener is added on the panel.
trapFocus(s, m) == [s EXCEPT !.traps[m] = @ + 1]

\* openModal(modal), modal non-null.
openModal(s, m) ==
    trapFocus([s EXCEPT !.lastFocusedElement = s.focus,
                        !.active[m] = TRUE,
                        !.ariaHidden[m] = "false",
                        !.overflow = "hidden",
                        !.activeModal = m,
                        !.timers[m] = @ + 1], m)

\* openModalById(modalId): document.getElementById may find nothing.
openModalById(s, id) == IF id \in Modals THEN openModal(s, id) ELSE s

\* closeModal(modal), modal non-null.
closeModal(s, m) ==
    LET s1 == [s EXCEPT !.active[m] = FALSE,
                        !.ariaHidden[m] = "true",
                        !.overflow = "",
                        !.activeModal = NULL,
                        !.restored = s.lastFocusedElement]
    IN  IF s1.lastFocusedElement # NullEl
        THEN [Focus(s1, s1.lastFocusedElement) EXCEPT !.lastFocusedElement = NullEl]
        ELSE s1

\* closeCurrentModal()
closeCurrentModal(s) ==
    IF s.activeModal # NULL THEN closeModal(s, s.activeModal) ELSE s

\* The document keydown listener of initProjectModals.
projectKeydown(s, key) ==
    IF key = "Escape" /\ s.activeModal # NULL THEN closeCurrentModal(s) ELSE s

\* A trap that wraps without testing where focus is when the panel has no
\* focusable element, and calls focus() on the missing element.
handleFocusTrapWrapsAlways(r, m, key, shift) ==
    LET F == PanelFocusables(m)
        n == Len(F)
    IN  IF key # "Tab" THEN r
        ELSE IF n = 0 THEN [s |-> [r.s EXCEPT !.threw = TRUE], prevented |-> TRUE]
        ELSE IF shift
        THEN IF r.s.focus = F[1]
             THEN [s |-> Focus(r.s, F[n]), prevented |-> TRUE] ELSE r
        ELSE IF r.s.focus = F[n]
             THEN [s |-> Focus(r.s, F[1]), prevented |-> TRUE] ELSE r

\* A trap that moves focus at the ends of the panel without calling
\* e.preventDefault().
handleFocusTrapNoPrevent(r, m, key, shift) ==
    LET F == PanelFocusables(m)
        n == Len(F)
    IN  IF key # "Tab" THEN r
        ELSE IF shift
        THEN IF n > 0 /\ r.s.focus = F[1]
             THEN [s |-> Focus(r.s, F[n]), prevented |-> r.prevented] ELSE r
        ELSE IF n > 0 /\ r.s.focus = F[n]
             THEN [s |-> Focus(r.s, F[1]), prevented |-> r.prevented] ELSE r

\* One handleFocusTrap listener of panel m; r = [s, prevented].
handleFocusTrap(r, m, key, shift) ==
    LET F == PanelFocusables(m)
        n == Len(F)
    IN  IF key # "Tab" THEN r
        ELSE IF shift
        THEN IF n > 0 /\ r.s.focus = F[1]
             THEN [s |-> Focus(r.s, F[n]), prevented |-> TRUE] ELSE r
        ELSE IF n > 0 /\ r.s.focus = F[n]
             THEN [s |-> Focus(r.s, F[1]), prevented |-> TRUE] ELSE r

\* The k listeners installed on panel m, run in attachment order.
RECURSIVE runTraps(_, _, _, _, _)
runTraps(r, m, key, shift, k) ==
    IF k = 0 THEN r
    ELSE runTraps(handleFocusTrap(r, m, key, shift), m, key, shift, k - 1)

-----------------------------------------------------------------------------
(* script_topnav_backup.js: mobile menu *)

BoolStr(b) == IF b THEN "true" ELSE "false"

closeMenu(s) == [s EXCEPT !.menuActive = FALSE,
                          !.hamburgerActive = FALSE,
                          !.ariaExpanded = "false",
                          !.overflow = ""]

\* hamburgerClick writing isOpen instead of !isOpen to aria-expanded.
hamburgerClickStaleAria(s) ==
    LET isOpen == s.menuActive
    IN  [s EXCEPT !.menuActive = ~ @,
                  !.hamburgerActive = ~ @,
                  !.ariaExpanded = BoolStr(isOpen),
                  !.overflow = IF isOpen THEN "" ELSE "hidden"]

\* hamburger click listener
hamburgerClick(s) ==
    LET isOpen == s.menuActive
    IN  [s EXCEPT !.menuActive = ~ @,
                  !.hamburgerActive = ~ @,
                  !.ariaExpanded = BoolStr(~ isOpen),
                  !.overflow = IF isOpen THEN "" ELSE "hidden"]

\* nav link click listener
navLinkClick(s) == closeMenu(s)

\* document click listener: close the menu on a click outside it.
menuOutsideClick(s, e) ==
    IF e.k # "hamburger" /\ e.k # "navLink" THEN closeMenu(s) ELSE s

-----------------------------------------------------------------------------
(* script_topnav_backup.js: certificate panel *)

\* const certificates (the same table as certificateImages of script_new.js)
certificates == [c \in {"matlab-certificate", "research-certificate"} |->
                    IF c = "matlab-certificate" THEN "Edge Course.jpg"
                    ELSE "Certificate of Appreciation.png"]

\* certificates[certificateId]: the value of an own key of the table;
\* otherwise the lookup goes on in Object.prototype, where "constructor" finds
\* the Object function (written to src as its source text); otherwise
\* undefined.
Undefined == "undefined"
ObjectFunction == "function Object() { [native code] }"
certificateSrc(c) ==
    IF c \in DOMAIN certificates THEN certificates[c]
    ELSE IF c = "constructor" THEN ObjectFunction
    ELSE Undefined

\* .view-certificate-btn click listener
\* A listener that dereferences a missing element throws: it stops there and
\* keeps what it has written so far.
Throw(s) == [s EXCEPT !.threw = TRUE]

\* .view-certificate-btn click listener
certBtnClick(s, c) ==
    IF certificateSrc(c) = Undefined THEN s
    ELSE IF ~ hasCertImage THEN Throw(s)
    ELSE LET s1 == [s EXCEPT !.certSrc = certificateSrc(c),
                             !.certAlt = c \o " certificate"]
         IN  IF ~ hasCertModal THEN Throw(s1)
             ELSE [s1 EXCEPT !.certActive = TRUE,
                             !.certAriaHidden = "false",
                             !.overflow = "hidden"]

\* The body shared by the [data-close-certificate] click listener and the
\* Escape branch of the keydown listener.
certClose(s) ==
    IF ~ hasCertModal THEN Throw(s)
    ELSE LET s1 == [s EXCEPT !.certActive = FALSE,
                             !.certAriaHidden = "true",
                             !.overflow = ""]
         IN  IF ~ hasCertImage THEN Throw(s1) ELSE [s1 EXCEPT !.certSrc = ""]

\* [data-close-certificate] click listener
certCloseClick(s) == certClose(s)

\* The document keydown listener of initCertificateModal.
certKeydown(s, key) ==
    IF key # "Escape" THEN s
    ELSE IF ~ hasCertModal THEN Throw(s)
    ELSE IF s.certActive THEN certClose(s) ELSE s

-----------------------------------------------------------------------------
(* script_topnav_backup.js: events *)

\* Sequential focus navigation, the default action of Tab / Shift+Tab:
\* the next (previous) rendered element of TabOrder, wrapping around.
Pos(e) == IF \E i \in 1..Len(TabOrder) : TabOrder[i] = e
          THEN CHOOSE i \in 1..Len(TabOrder) : TabOrder[i] = e ELSE 0

defaultTab(s, shift) ==
    LET f == s.focus
        \* an element outside the focus order counts from its place in the
        \* document: the content of a panel comes right before its controls
        p == IF f.k = "content" THEN Pos(CloseBtn(f.m)) - 1 ELSE Pos(f)
        q == IF f.k = "content" THEN Pos(CloseBtn(f.m)) ELSE Pos(f)
        ok == {i \in 1..Len(TabOrder) :
                  Focusable(TabOrder[i]) /\ Rendered(s, TabOrder[i])}
        after == {i \in ok : i > p}
        before == {i \in ok : i < q}
        Min(S) == CHOOSE x \in S : \A y \in S : x <= y
        Max(S) == CHOOSE x \in S : \A y \in S : x >= y
        next == IF shift
                THEN IF before # {} THEN Max(before) ELSE Max(ok)
                ELSE IF after # {} THEN Min(after) ELSE Min(ok)
    IN  [s EXCEPT !.focus = TabOrder[next]]

\* Identifiers and link targets are sequences of characters.
Links == {"l1", "l2"}

\* link.getAttribute('href')
Href(l) == IF l = "l1" THEN <<"#", "a">> ELSE <<"#", "a", "b">>

\* The click listener initSmoothScrolling puts on every a[href^="#"]: a link
\* whose target is in the page is kept from navigating and the smooth scroll
\* is started (its scroll events come later).
smoothScrollClick(s, l) ==
    LET href == Href(l)
        target == {i \in 1..Len(navSections) : <<"#">> \o navSections[i].id = href}
    IN  IF href = <<"#">> \/ href = <<"#", "!">> THEN s
        ELSE IF target # {} THEN [s EXCEPT !.clickPrevented = TRUE]
        ELSE s

\* The listeners on the click target itself, in attachment order.
targetClick(s, e) ==
    CASE e.k = "trigger"   -> openModalById(s, e.m)
      [] e.k \in {"close", "overlay"} -> closeCurrentModal(s)
      [] e.k = "hamburger" -> hamburgerClick(s)
      [] e.k = "navLink"   -> smoothScrollClick(navLinkClick(s), e.m)
      [] e.k = "certBtn"   -> certBtnClick(s, e.m)
      [] e.k = "certClose" -> certCloseClick(s)
      [] OTHER             -> s

\* A click on e: the target's listener, then the document's.
clickEvent(s, e) == FocusFixup(menuOutsideClick(targetClick(s, e), e))

\* A key press, dispatched to document.activeElement: the trap listeners of the
\* panel around it, the two document listeners, then the default action.
keydownEvent(s, key, shift) ==
    LET t == s.focus
        r0 == [s |-> s, prevented |-> FALSE]
        r1 == IF t.k \in PanelKinds
              THEN runTraps(r0, t.m, key, shift, s.traps[t.m]) ELSE r0
        s2 == certKeydown(projectKeydown(r1.s, key), key)
        s3 == IF key = "Tab" /\ ~ r1.prevented THEN defaultTab(s2, shift) ELSE s2
        \* the trap listeners of the panel ran: they left the key press
        \* alone ("idle"), or moved focus, cancelled the default or threw
        ran == IF t.k \in PanelKinds /\ s.traps[t.m] > 0
               THEN IF r1.s.focus = t /\ ~ r1.prevented /\ ~ r1.s.threw
                    THEN "idle" ELSE "acted"
               ELSE NoTrap
    IN  [FocusFixup(s3) EXCEPT !.trapRun = ran]

\* The callback of the setTimeout(..., 100) of openModal for panel m.
focusTimer(s, m) ==
    Focus([s EXCEPT !.timers[m] = @ - 1], CloseBtn(m))

-----------------------------------------------------------------------------
(* Scroll-driven navigation highlight (both scripts) *)

Sec(id, top, height) == [id |-> id, top |-> top, height |-> height]

\* The section layouts a page may have: none; two sections from the top of the
\* page; content above the first section; a gap between the sections.
Layouts ==
    { <<>>,
      <<Sec(<<"a">>, 0, 400), Sec(<<"a", "b">>, 400, 400)>>,
      <<Sec(<<"a">>, 300, 400), Sec(<<"a", "b">>, 700, 400)>>,
      <<Sec(<<"a">>, 0, 300), Sec(<<"a", "b">>, 500, 300)>> }

ScrollPositions == {0, 100, 300, 600, 900}

\* document.querySelector('.navbar')?.offsetHeight || 70
navbarHeight == 70

\* The fixed lead of updateActiveNav (sectionTop - navbarHeight - 100).
ScrollLead == 100

\* String.prototype.includes
Includes(h, c) ==
    \E i \in 0..(Len(h) - Len(c)) : SubSeq(h, i + 1, i + Len(c)) = c

\* sections.forEach(...): each section that satisfies the test overwrites the
\* result, so it ends as the id of the last such section, or '' with none.
LastHit(secs, hits) ==
    IF hits = {} THEN <<>>
    ELSE secs[CHOOSE i \in hits : \A j \in hits : j <= i].id

\* updateActiveNav() of script_topnav_backup.js: [current, active entries]
updateActiveNav(secs, y) ==
    LET hits == {i \in 1..Len(secs) :
                    y >= secs[i].top - navbarHeight - ScrollLead}
        current == LastHit(secs, hits)
    IN  [current |-> current,
         active |-> {l \in Links : Includes(Href(l), current)}]

\* updateActiveNavOnScroll() of script_new.js.  The reference point is
\* scrollY + innerHeight / 3; against integer bounds its floor decides the
\* same comparisons.
updateActiveNavOnScroll(secs, y) ==
    LET scrollPosition == y + innerHeight \div 3
        hits == {i \in 1..Len(secs) :
                    /\ scrollPosition >= secs[i].top
                    /\ scrollPosition < secs[i].top + secs[i].height}
        current == LastHit(secs, hits)
    IN  [current |-> current,
         active |-> {l \in Links : Href(l) = <<"#">> \o current}]

Recompute(secs, y) ==
    IF script = "topnav" THEN updateActiveNav(secs, y)
    ELSE updateActiveNavOnScroll(secs, y)

-----------------------------------------------------------------------------
(* script_new.js: certificate panel and sidebar menu *)

\* The widest viewport that counts as mobile (window.innerWidth <= 992).
MobileMax == 992

\* certificateId.replace('-', ' ').toUpperCase()
altText(c) ==
    CASE c = "matlab-certificate"   -> "MATLAB CERTIFICATE"
      [] c = "research-certificate" -> "RESEARCH CERTIFICATE"
      [] c = "constructor"          -> "CONSTRUCTOR"
      [] OTHER                      -> "OTHER CERTIFICATE"

\* openCertificateModal(certificateId)
openCertificateModal(s, c) ==
    IF certificateSrc(c) = Undefined THEN s
    ELSE IF ~ hasCertImage THEN Throw(s)
    ELSE LET s1 == [s EXCEPT !.certSrc = certificateSrc(c),
                             !.certAlt = altText(c)]
         IN  IF ~ hasCertModal THEN Throw(s1)
             ELSE [s1 EXCEPT !.certActive = TRUE, !.overflow = "hidden"]

\* closeCertificateModal without the reset of document.body.style.overflow.
closeCertificateModalKeepsLock(s) ==
    IF ~ hasCertModal THEN Throw(s)
    ELSE [s EXCEPT !.certActive = FALSE]

\* closeCertificateModal()
closeCertificateModal(s) ==
    IF ~ hasCertModal THEN Throw(s)
    ELSE [s EXCEPT !.certActive = FALSE, !.overflow = ""]

\* The delegating document click listener (certificate buttons).
certDelegateClick(s, e) ==
    LET s1 == IF e.k = "certBtn" THEN openCertificateModal(s, e.m) ELSE s
    IN  IF s1.threw THEN s1
        ELSE IF e.k = "certClose" THEN closeCertificateModal(s1) ELSE s1

\* The document keydown listener.
newKeydown(s, key) ==
    IF key = "Escape" THEN closeCertificateModal(s) ELSE s

closeSidebar(s) == [s EXCEPT !.menuActive = FALSE, !.menuIcon = "fa-bars"]

\* .mobile-menu-toggle click listener
mobileMenuToggleClick(s) ==
    IF s.menuActive
    THEN [s EXCEPT !.menuActive = FALSE, !.menuIcon = "fa-bars"]
    ELSE [s EXCEPT !.menuActive = TRUE, !.menuIcon = "fa-times"]

\* The document click listener that closes the sidebar on an outside click.
sidebarOutsideClick(s, e) ==
    IF /\ innerWidth <= MobileMax
       /\ e.k # "navLink" /\ e.k # "hamburger"
       /\ s.menuActive
    THEN closeSidebar(s) ELSE s

\* .nav-item click listener: e.preventDefault() first; then, when the link's
\* target section exists, close the sidebar on mobile, start the smooth scroll (its scroll events come later)
\* and mark the clicked entry alone.
navItemClick(s, l) ==
    LET s0 == [s EXCEPT !.clickPrevented = TRUE]
    IN  IF \E i \in 1..Len(navSections) : <<"#">> \o navSections[i].id = Href(l)
        THEN [(IF innerWidth <= MobileMax /\ s0.menuActive
               THEN closeSidebar(s0) ELSE s0) EXCEPT !.activeLinks = {l}]
        ELSE s0

\* A click on e: the target's listener, then the two document listeners in
\* attachment order.  A throwing listener does not stop the later ones.
newClickEvent(s, e) ==
    LET s1 == CASE e.k = "hamburger" -> mobileMenuToggleClick(s)
                [] e.k = "navLink"   -> navItemClick(s, e.m)
                [] OTHER             -> s
    IN  sidebarOutsideClick(certDelegateClick(s1, e), e)

-----------------------------------------------------------------------------
(* The script listed in REFACTORING_SUMMARY.md ("current"): sidebar and     *)
(* navbar menu.  Its navigation-entry listener and its resize handler are   *)
(* those of script_new.js, line for line.                                   *)

SidebarClose == El("sidebarClose", NULL)   \* .sidebar-close, in the sidebar

\* .mobile-menu-toggle click listener: both containers on a mobile width, the
\* sidebar alone otherwise; the glyph follows "either is open".
curToggleClick(s) ==
    LET s1 == IF innerWidth <= MobileMax
              THEN [s EXCEPT !.navbarNavActive = ~ @, !.menuActive = ~ @]
              ELSE [s EXCEPT !.menuActive = ~ @]
    IN  [s1 EXCEPT !.menuIcon = IF s1.navbarNavActive \/ s1.menuActive
                                THEN "fa-times" ELSE "fa-bars"]

\* .sidebar-close click listener
curSidebarCloseClick(s) == closeSidebar(s)

\* The document click listener that closes the navbar menu on a click
\* outside .top-navbar.
curOutsideClick(s, inNavbar) ==
    IF innerWidth <= MobileMax /\ ~ inNavbar /\ s.navbarNavActive
    THEN [s EXCEPT !.navbarNavActive = FALSE, !.menuIcon = "fa-bars"]
    ELSE s

\* A click on e (inside .top-navbar or not): the target's listener, then the
\* document listeners.  The toggle's listener stops the propagation, so the
\* document never sees a click on the toggle.
curClickEvent(s, e, inNavbar) ==
    CASE e.k = "hamburger"    -> curToggleClick(s)
      [] e.k = "sidebarClose" -> curOutsideClick(curSidebarCloseClick(s), inNavbar)
      [] e.k = "navLink"      -> curOutsideClick(navItemClick(s, e.m), inNavbar)
      [] OTHER                -> curOutsideClick(s, inNavbar)

\* The debounced resize handler (script_new.js and the "current" script);
\* innerWidth is the width when it runs.
resizeHandler(s) ==
    IF windowWidth <= MobileMax /\ innerWidth > MobileMax
    THEN closeSidebar(s) ELSE s

-----------------------------------------------------------------------------
(* Theme: script_topnav_backup.js (initThemePersistence, getCurrentTheme,   *)
(* setTheme) and the "current" script (toggle button with its icon)         *)

\* The strings a caller passes to setTheme, or an earlier visit left in
\* storage: the two themes, another word, the empty string.
ThemeValues == {"dark", "light", "blue", ""}

\* No setTheme call or toggle click since the page was loaded first.
NoCall == [arg |-> NULL, times |-> 0, reloaded |-> FALSE]

\* The snapshot the theme functions work on.
ThemeSt == [storage |-> storage, dataTheme |-> dataTheme,
            themeIcon |-> themeIcon]

\* The document as the markup has it, before a script runs: no data-theme
\* attribute (read as ''), the toggle showing the glyph of the default theme.
Markup(st) == [storage |-> st, dataTheme |-> "", themeIcon |-> "fa-sun"]

\* localStorage.getItem(KEY) || 'dark': null and '' both give 'dark'.
savedTheme(st) ==
    IF st = {} \/ st = {""} THEN "dark" ELSE CHOOSE v \in st : TRUE

\* initThemePersistence()
initThemePersistence(t) == [t EXCEPT !.dataTheme = savedTheme(t.storage)]

\* getCurrentTheme(): getAttribute('data-theme') || 'dark'
getCurrentTheme(t) == IF t.dataTheme = "" THEN "dark" ELSE t.dataTheme

\* setTheme that flips the theme when it is asked for the present one.
setThemeFlipsWhenSame(t, theme) ==
    LET v == IF t.dataTheme # theme THEN theme
             ELSE IF theme = "dark" THEN "light" ELSE "dark"
    IN  [t EXCEPT !.dataTheme = v, !.storage = {v}]

\* setTheme(theme)
setTheme(t, theme) == [t EXCEPT !.dataTheme = theme, !.storage = {theme}]

\* updateThemeIcon() of the "current" script
updateThemeIcon(t) ==
    [t EXCEPT !.themeIcon = IF t.dataTheme = "dark" THEN "fa-sun" ELSE "fa-moon"]

\* The top-level theme statements of the "current" script.
currentThemeInit(t) ==
    updateThemeIcon([t EXCEPT !.dataTheme = savedTheme(t.storage)])

\* .theme-toggle click listener of the "current" script
themeToggleClick(t) ==
    LET newTheme == IF t.dataTheme = "light" THEN "dark" ELSE "light"
    IN  updateThemeIcon([t EXCEPT !.dataTheme = newTheme,
                                  !.storage = {newTheme}])

\* The theme state a page load leaves, given what storage holds.
loadTheme(st) ==
    IF script = "topnav" THEN initThemePersistence(Markup(st))
    ELSE IF script = "current" THEN currentThemeInit(Markup(st))
    ELSE Markup(st)

-----------------------------------------------------------------------------
(* Reveal on scroll: the IntersectionObserver of initRevealAnimations and   *)
(* fadeInObserver                                                           *)

\* The elements the selector finds, in document order.
WatchedOrder == <<"e1", "e2">>
Watched == {WatchedOrder[i] : i \in 1..Len(WatchedOrder)}

\* The snapshot of the watcher: observed targets, queued entries, and the
\* elements that carry the revealed class ('revealed' / 'fade-in-up').
RevealSt == [observed |-> revObserved, queue |-> revQueue,
             revealed |-> revRevealed]

\* observer.observe(el): the watcher queues a first entry that tells whether
\* the target intersects the root (threshold and margin applied).
observe(r, el) ==
    [r EXCEPT !.observed = @ \cup {el},
              !.queue = Append(@, [target |-> el,
                                   isIntersecting |-> revIntersecting[el]])]

\* A loop that stops one element short of the end of the list.
RECURSIVE observeAllButLast(_, _)
observeAllButLast(r, els) ==
    IF Len(els) <= 1 THEN r
    ELSE observeAllButLast(observe(r, Head(els)), Tail(els))

\* elements.forEach(el => observer.observe(el))
RECURSIVE observeAll(_, _)
observeAll(r, els) ==
    IF els = <<>> THEN r ELSE observeAll(observe(r, Head(els)), Tail(els))

\* A callback that sets the class to entry.isIntersecting and keeps watching.
RECURSIVE observerCallbackToggles(_, _)
observerCallbackToggles(r, entries) ==
    IF entries = <<>> THEN r
    ELSE LET e == Head(entries)
             r1 == IF e.isIntersecting
                   THEN [r EXCEPT !.revealed = @ \cup {e.target}]
                   ELSE [r EXCEPT !.revealed = @ \ {e.target}]
         IN  observerCallbackToggles(r1, Tail(entries))

\* A callback that adds the class and keeps watching the target.
RECURSIVE observerCallbackKeepsWatching(_, _)
observerCallbackKeepsWatching(r, entries) ==
    IF entries = <<>> THEN r
    ELSE LET e == Head(entries)
             r1 == IF e.isIntersecting
                   THEN [r EXCEPT !.revealed = @ \cup {e.target}]
                   ELSE r
         IN  observerCallbackKeepsWatching(r1, Tail(entries))

\* The observer callback: entries.forEach(entry => ...)
RECURSIVE observerCallback(_, _)
observerCallback(r, entries) ==
    IF entries = <<>> THEN r
    ELSE LET e == Head(entries)
             r1 == IF e.isIntersecting
                   THEN [r EXCEPT !.revealed = @ \cup {e.target},
                                  !.observed = @ \ {e.target}]
                   ELSE r
         IN  observerCallback(r1, Tail(entries))

-----------------------------------------------------------------------------
(* debounce(func, wait) (both scripts) *)

\* The debounced wrappers a page creates: the scroll handler and the resize
\* handler.
Wrappers == {"scroll", "resize"}

\* The wait of a wrapper, in clock ticks (the scroll handlers wait 10 ms or
\* 100 ms, the resize handler 250 ms).
Wait(w) == IF w = "scroll" THEN 2 ELSE 3

\* The arguments a call may carry (the event).
Args == {"e1", "e2"}

\* Timer handles; 0 stands for the undefined 'timeout' of a fresh closure.
TimerIds == 1..MaxTimers

\* setTimeout returns a handle that no live timer and no variable holds.
FreeTimerIds ==
    TimerIds \ ({t.id : t \in debTimers} \cup {debTimeout[w] : w \in Wrappers})

\* clearTimeout(id)
clearTimeout(ts, id) == {t \in ts : t.id # id}

\* executedFunction(...args) without its clearTimeout(timeout).
executedFunctionNoClear(ts, w, args, id) ==
    ts \cup {[id |-> id, w |-> w, remaining |-> Wait(w), args |-> args]}

\* executedFunction(...args): the timers left by a call of wrapper w.
executedFunction(ts, w, args, id) ==
    clearTimeout(ts, debTimeout[w])
    \cup {[id |-> id, w |-> w, remaining |-> Wait(w), args |-> args]}

-----------------------------------------------------------------------------
(* script_topnav_backup.js: showAlert *)

\* The delay before a notice is faded out (5000 ms) and the delay from then
\* to its removal (300 ms), in clock ticks.
AlertTicks == 3
FadeTicks == 1

NoticeIds == 1..MaxNotices

\* document.createElement gives an element that is neither in the document
\* nor held by a pending timer.
FreeNoticeIds ==
    NoticeIds \ ({notices[i].id : i \in 1..Len(notices)}
                 \cup {t.id : t \in alertTimers})

\* The alert state the handlers work on.
AlertSt ==
    [notices |-> notices, timers |-> alertTimers, sheets |-> slideDownStyles]

\* document.head.appendChild(styleSheet): one more style element in head.
appendStyleSheet(n) == IF n < MaxSheets THEN n + 1 ELSE MaxSheets

\* showAlert without the removal of the existing notice.
showAlertKeepExisting(a, type, id) ==
    [notices |-> Append(a.notices,
                        [id |-> id, type |-> type, age |-> 0, faded |-> FALSE]),
     timers |-> a.timers
                \cup {[id |-> id, phase |-> "hide", remaining |-> AlertTicks]},
     sheets |-> appendStyleSheet(a.sheets)]

\* showAlert(message, type): remove the first .custom-alert of the document,
\* append the new one, set its 5000 ms timer.
showAlert(a, type, id) ==
    LET kept == IF a.notices # <<>> THEN Tail(a.notices) ELSE a.notices
    IN  [notices |-> Append(kept,
                            [id |-> id, type |-> type, age |-> 0,
                             faded |-> FALSE]),
         timers |-> a.timers
                    \cup {[id |-> id, phase |-> "hide", remaining |-> AlertTicks]},
         sheets |-> appendStyleSheet(a.sheets)]

\* The notices s without the element drop.
RECURSIVE SelectNotices(_, _)
SelectNotices(s, drop) ==
    IF s = <<>> THEN <<>>
    ELSE IF Head(s).id = drop THEN SelectNotices(Tail(s), drop)
    ELSE <<Head(s)>> \o SelectNotices(Tail(s), drop)

\* The callback of timer t: the outer one fades its own notice and sets the
\* inner timer; the inner one removes its own notice (alert.remove()).
alertTimerCallback(a, t) ==
    IF t.phase = "hide"
    THEN [notices |-> [i \in 1..Len(a.notices) |->
                          IF a.notices[i].id = t.id
                          THEN [a.notices[i] EXCEPT !.faded = TRUE]
                          ELSE a.notices[i]],
          timers |-> (a.timers \ {t})
                     \cup {[id |-> t.id, phase |-> "remove",
                            remaining |-> FadeTicks]},
          sheets |-> a.sheets]
    ELSE [notices |-> SelectNotices(a.notices, t.id),
          timers |-> a.timers \ {t},
          sheets |-> a.sheets]

-----------------------------------------------------------------------------
(* Contact form (both scripts) *)

\* Text is a sequence of characters.  In the fixed texts of the script a run
\* of letters is written as one element; a field value has one character per
\* element.

\* \s of a regular expression, and the white space String.trim removes
IsSpace(c) == c \in {" ", "\n"}

\* String.prototype.trim
RECURSIVE trimStart(_)
trimStart(s) ==
    IF s # <<>> /\ IsSpace(Head(s)) THEN trimStart(Tail(s)) ELSE s

RECURSIVE trimEnd(_)
trimEnd(s) ==
    IF s # <<>> /\ IsSpace(s[Len(s)]) THEN trimEnd(SubSeq(s, 1, Len(s) - 1))
    ELSE s

trim(s) == trimEnd(trimStart(s))

\* [^\s@]+ matched against the whole of s
NoSpaceNoAt(s) ==
    s # <<>> /\ \A k \in 1..Len(s) : ~ IsSpace(s[k]) /\ s[k] # "@"

\* A test that takes anything@anything for an address (no '.tld' part).
emailPatternNoTld(e) ==
    \E i \in 1..Len(e) :
        /\ e[i] = "@"
        /\ NoSpaceNoAt(SubSeq(e, 1, i - 1))
        /\ NoSpaceNoAt(SubSeq(e, i + 1, Len(e)))

\* /^[^\s@]+@[^\s@]+\.[^\s@]+$/.test(e)
emailPatternTest(e) ==
    \E i, j \in 1..Len(e) :
        /\ i < j
        /\ e[i] = "@"
        /\ e[j] = "."
        /\ NoSpaceNoAt(SubSeq(e, 1, i - 1))
        /\ NoSpaceNoAt(SubSeq(e, i + 1, j - 1))
        /\ NoSpaceNoAt(SubSeq(e, j + 1, Len(e)))

\* The shortest name and message script_topnav_backup.js accepts.
MinNameLength == 2
MinMessageLength == 10

\* The validation of script_topnav_backup.js that asks for a name of three
\* characters.
validateLongerName(name, email, message) ==
    /\ ~ (name = <<>> \/ Len(name) < MinNameLength + 1)
    /\ ~ (email = <<>> \/ ~ emailPatternTest(email))
    /\ ~ (message = <<>> \/ Len(message) < MinMessageLength)

\* The validation of script_topnav_backup.js: isValid after the three tests.
validate(name, email, message) ==
    /\ ~ (name = <<>> \/ Len(name) < MinNameLength)
    /\ ~ (email = <<>> \/ ~ emailPatternTest(email))
    /\ ~ (message = <<>> \/ Len(message) < MinMessageLength)

\* The characters encodeURIComponent escapes, among those of the model, with
\* their escape codes.
EscapeCode ==
    [c \in {" ", "\n", "&", "?", "#", "=", "@", ":", "%"} |->
        CASE c = " "  -> "20"
          [] c = "\n" -> "0A"
          [] c = "&"  -> "26"
          [] c = "?"  -> "3F"
          [] c = "#"  -> "23"
          [] c = "="  -> "3D"
          [] c = "@"  -> "40"
          [] c = ":"  -> "3A"
          [] c = "%"  -> "25"]

\* encodeURI: it leaves the characters that have a meaning in a URI as they
\* are.
RECURSIVE encodeURI(_)
encodeURI(s) ==
    IF s = <<>> THEN <<>>
    ELSE (IF Head(s) \in {" ", "\n", "%"}
          THEN <<"%", EscapeCode[Head(s)]>> ELSE <<Head(s)>>)
         \o encodeURI(Tail(s))

\* encodeURIComponent
RECURSIVE encodeURIComponent(_)
encodeURIComponent(s) ==
    IF s = <<>> THEN <<>>
    ELSE (IF Head(s) \in DOMAIN EscapeCode
          THEN <<"%", EscapeCode[Head(s)]>> ELSE <<Head(s)>>)
         \o encodeURIComponent(Tail(s))

\* `Portfolio Contact from ${name}`
subjectText(name) == <<"Portfolio", " ", "Contact", " ", "from", " ">> \o name

\* `Name: ${name}\nEmail: ${email}\n\nMessage:\n${message}`
bodyText(name, email, message) ==
    <<"Name", ":", " ">> \o name \o <<"\n", "Email", ":", " ">> \o email
    \o <<"\n", "\n", "Message", ":", "\n">> \o message

\* const mailtoLink
mailtoLink(name, email, message) ==
    <<"mailto:mueezmejbah284@gmail.com", "?", "subject", "=">>
    \o encodeURIComponent(subjectText(name))
    \o <<"&", "body", "=">>
    \o encodeURIComponent(bodyText(name, email, message))

\* The form state the submit handlers work on.
FormSt == [name |-> fName, email |-> fEmail, message |-> fMessage,
           location |-> location, prevented |-> FALSE, log |-> <<>>]

Logged(x, step) == [x EXCEPT !.f.log = Append(@, step)]

\* The steps of the submit handler of script_topnav_backup.js; x = [f, a],
\* the form and the notices.
preventDefault(x) == Logged([x EXCEPT !.f.prevented = TRUE], "preventDefault")

showError(x, id) ==
    Logged([x EXCEPT !.a = showAlert(x.a, "error", id)], "error")

invokeLink(x, link) == Logged([x EXCEPT !.f.location = link], "invoke")

showSuccess(x, id) ==
    Logged([x EXCEPT !.a = showAlert(x.a, "success", id)], "notice")

\* contactForm.reset(): the fields go back to their (empty) default values.
resetForm(x) ==
    Logged([x EXCEPT !.f.name = <<>>, !.f.email = <<>>, !.f.message = <<>>],
           "reset")

\* The submit handler of script_topnav_backup.js without the return that
\* follows the error notice.
submitHandlerNoReturn(x, id) ==
    LET name == trim(x.f.name)
        email == trim(x.f.email)
        message == trim(x.f.message)
        x1 == preventDefault(x)
        x2 == IF validate(name, email, message) THEN x1 ELSE showError(x1, id)
    IN  resetForm(showSuccess(
            invokeLink(Logged(x2, "build"), mailtoLink(name, email, message)),
            id))

\* The submit handler of script_topnav_backup.js.
submitHandler(x, id) ==
    LET name == trim(x.f.name)
        email == trim(x.f.email)
        message == trim(x.f.message)
        x1 == preventDefault(x)
    IN  IF ~ validate(name, email, message) THEN showError(x1, id)
        ELSE resetForm(showSuccess(
                 invokeLink(Logged(x1, "build"),
                            mailtoLink(name, email, message)),
                 id))

\* The submit handler of script_new.js: it prevents the submission and calls
\* window.alert when a field is empty or the address fails the test;
\* otherwise it does nothing and the browser submits the form.
submitHandlerNew(x) ==
    LET name == trim(x.f.name)
        email == trim(x.f.email)
        message == trim(x.f.message)
    IN  IF name = <<>> \/ email = <<>> \/ message = <<>>
        THEN Logged(preventDefault(x), "error")
        ELSE IF ~ emailPatternTest(email)
        THEN Logged(preventDefault(x), "error")
        ELSE x

\* The default action of a submit event that no listener prevented: the
\* browser navigates to the form's action.
defaultSubmit(x) ==
    IF x.f.prevented THEN x ELSE [x EXCEPT !.f.location = <<"form-action">>]

-----------------------------------------------------------------------------
(* Actions *)

RECURSIVE Sum(_, _)
Sum(f, S) == IF S = {} THEN 0
             ELSE LET x == CHOOSE x \in S : TRUE IN f[x] + Sum(f, S \ {x})

\* openModal calls so far (each installs one listener that is never removed).
Opens == Sum(traps, Modals)

Settle(s, ev) ==
    /\ active' = s.active
    /\ ariaHidden' = s.ariaHidden
    /\ overflow' = s.overflow
    /\ activeModal' = s.activeModal
    /\ lastFocusedElement' = s.lastFocusedElement
    /\ focus' = s.focus
    /\ timers' = s.timers
    /\ traps' = s.traps
    /\ menuActive' = s.menuActive
    /\ hamburgerActive' = s.hamburgerActive
    /\ ariaExpanded' = s.ariaExpanded
    /\ menuIcon' = s.menuIcon
    /\ certActive' = s.certActive
    /\ certAriaHidden' = s.certAriaHidden
    /\ certSrc' = s.certSrc
    /\ certAlt' = s.certAlt
    /\ restored' = s.restored
    /\ threw' = s.threw
    /\ activeLinks' = s.activeLinks
    /\ navbarNavActive' = s.navbarNavActive
    /\ trapRun' = s.trapRun
    /\ clickPrevented' = s.clickPrevented
    /\ lastEvent' = ev
    /\ UNCHANGED <<pageVars, bare, revealVars, topVars>>
    /\ UNCHANGED <<navSections, innerHeight, scrollY, navTimer, navComputed,
                   navCurrent, navBurstY>>
    /\ UNCHANGED <<debVars, formVars, alertVars>>

\* A click, key or timer event of the dialogs and menus has been handled.
Commit(s, ev) ==
    /\ Settle(s, ev)
    /\ UNCHANGED <<innerWidth, menuVars, themeVars>>

\* A user event starts a new history: no close is being settled.
Fresh == [St EXCEPT !.restored = NONE, !.threw = FALSE, !.trapRun = NoTrap,
                    !.clickPrevented = FALSE]

\* A click on a rendered element, by pointer, by keyboard activation of the
\* focused control or by element.click() (as the project cards do on Enter).
\* The click itself leaves focus where it is.
Click(e) ==
    /\ script = "topnav"
    /\ Rendered(St, e)
    /\ e.k = "trigger" => Opens < MaxOpens
    /\ Commit(clickEvent(Fresh, e), "click")

KeyDown(key, shift) ==
    /\ script = "topnav"
    /\ Commit(keydownEvent(Fresh, key, shift),
              IF key = "Tab" THEN "Tab" ELSE "Escape")

TimerFire(m) ==
    /\ script = "topnav"
    /\ timers[m] > 0
    /\ Commit(focusTimer([St EXCEPT !.threw = FALSE, !.trapRun = NoTrap,
                                    !.clickPrevented = FALSE], m),
              "timer")

\* The elements of the script_new.js page the model clicks on.
NewElements == {Body, Hamburger, NavLink, CertClose, CertContent}
               \cup {CertBtn(c) : c \in CertIds}

NewClick(e) ==
    /\ script = "new"
    /\ Rendered(St, e)
    /\ Commit(newClickEvent(Fresh, e), "click")

NewKeyDown(key) ==
    /\ script = "new"
    /\ Commit(newKeydown(Fresh, key), key)

\* The pages a script is loaded in: the full markup, under either kind of
\* stylesheet, and the markup with one certificate hook missing.
PageConfigs == {<<FALSE, TRUE, TRUE>>, <<TRUE, TRUE, TRUE>>,
                <<FALSE, FALSE, TRUE>>, <<FALSE, TRUE, FALSE>>}

\* No debounced wrapper has been called.
DebStart ==
    /\ debTimers = {}
    /\ debTimeout = [w \in Wrappers |-> 0]
    /\ debSinceCall = [w \in Wrappers |-> Wait(w)]
    /\ debSinceRun = [w \in Wrappers |-> Wait(w)]
    /\ debLastArgs = [w \in Wrappers |->
                         [args |-> NULL, first |-> NULL, calls |-> 0]]
    /\ debRun = [w |-> NULL, args |-> NULL, first |-> NULL, calls |-> 0]

\* The form as the markup leaves it: empty fields.
FormStart ==
    /\ fName = <<>>
    /\ fEmail = <<>>
    /\ fMessage = <<>>
    /\ location = <<"page">>
    /\ defaultPrevented = FALSE
    /\ formLog = <<>>
    /\ submits = 0

\* No notice has been shown.
AlertStart ==
    /\ notices = <<>>
    /\ alertTimers = {}
    /\ slideDownStyles = 0

\* The dialog state when the script has run.
DialogStart ==
    /\ threw = FALSE
    /\ active = [m \in Modals |-> FALSE]
    /\ ariaHidden = [m \in Modals |-> "true"]
    /\ overflow = ""
    /\ activeModal = NULL
    /\ lastFocusedElement = NullEl
    /\ focus = Body
    /\ timers = [m \in Modals |-> 0]
    /\ traps = [m \in Modals |-> 0]
    /\ menuActive = FALSE
    /\ hamburgerActive = FALSE
    /\ ariaExpanded = "false"
    /\ menuIcon = "fa-bars"
    /\ certActive = FALSE
    /\ certAriaHidden = "true"
    /\ certSrc = ""
    /\ certAlt = ""
    /\ lastEvent = "load"
    /\ restored = NONE
    /\ navbarNavActive = FALSE
    /\ trapRun = NoTrap
    /\ clickPrevented = FALSE

\* The snapshot DialogStart and NavStart describe, for a page that is loaded
\* again.
LoadedSt ==
    [active |-> [m \in Modals |-> FALSE],
     ariaHidden |-> [m \in Modals |-> "true"],
     overflow |-> "", activeModal |-> NULL, lastFocusedElement |-> NullEl,
     focus |-> Body, timers |-> [m \in Modals |-> 0],
     traps |-> [m \in Modals |-> 0],
     menuActive |-> FALSE, hamburgerActive |-> FALSE, ariaExpanded |-> "false",
     menuIcon |-> "fa-bars", certActive |-> FALSE, certAriaHidden |-> "true",
     certSrc |-> "", certAlt |-> "", threw |-> FALSE, restored |-> NONE,
     activeLinks |-> IF script = "topnav"
                     THEN updateActiveNav(navSections, scrollY).active ELSE {},
     navbarNavActive |-> FALSE, trapRun |-> NoTrap, clickPrevented |-> FALSE]

\* The resize handler has recorded the width the page was loaded at.
MenuStart ==
    /\ windowWidth = innerWidth
    /\ resizeTimer = FALSE

\* A first visit: nothing stored, the default theme, the glyph of the markup.
ThemeStart ==
    /\ storage = {}
    /\ dataTheme = "dark"
    /\ themeIcon = "fa-sun"
    /\ themeLast = NoCall

\* No element is watched yet.
RevealStart ==
    /\ revAttached = FALSE
    /\ revObserved = {}
    /\ revIntersecting = [e \in Watched |-> FALSE]
    /\ revRevealed = {}
    /\ revQueue = <<>>
    /\ revScrolled = FALSE

\* The scroll-to-top button as initScrollToTop creates it: no inline display,
\* no aria-hidden, no class but its own; nothing pending.
TopStart ==
    /\ btnDisplay = ""
    /\ btnVisible = FALSE
    /\ btnAriaHidden = NULL
    /\ scrollTimeout = FALSE
    /\ smoothToTop = FALSE

\* The state of the controllers a specification leaves at rest; every panel
\* has a focusable close button.
ExtStart ==
    /\ bare = {}
    /\ MenuStart
    /\ ThemeStart
    /\ RevealStart
    /\ TopStart

\* No scroll burst yet.
NoY == -1

\* The navigation state of a loaded page: init() of script_topnav_backup.js
\* has made its initial call of updateActiveNav; script_new.js waits for
\* DOMContentLoaded.
NavStart ==
    /\ navTimer = FALSE
    /\ navBurstY = NoY
    /\ navComputed = (script = "topnav")
    /\ navCurrent = IF script = "topnav"
                    THEN updateActiveNav(navSections, scrollY).current ELSE <<>>
    /\ activeLinks = IF script = "topnav"
                     THEN updateActiveNav(navSections, scrollY).active ELSE {}

Init ==
    /\ script \in {"topnav", "new"}
    /\ \E cfg \in PageConfigs : /\ closedPanelsRendered = cfg[1]
                                /\ hasCertModal = cfg[2]
                                /\ hasCertImage = cfg[3]
    /\ innerWidth \in {MobileMax, MobileMax + 1}
    /\ script = "topnav" => innerWidth = MobileMax + 1
    /\ script = "new" => ~ closedPanelsRendered
    /\ DialogStart
    /\ ExtStart
    /\ navSections = <<Sec(<<"a">>, 0, 400), Sec(<<"a", "b">>, 400, 400)>>
    /\ innerHeight = 600
    /\ scrollY = 0
    /\ NavStart
    /\ DebStart
    /\ FormStart
    /\ AlertStart

Next ==
    \/ \E e \in Elements : Click(e)
    \/ \E key \in {"Escape", "Tab"}, shift \in BOOLEAN : KeyDown(key, shift)
    \/ \E m \in Modals : TimerFire(m)
    \/ \E e \in NewElements : NewClick(e)
    \/ \E key \in {"Escape", "Tab"} : NewKeyDown(key)

vars == <<dialogVars, navVars, debVars, formVars, alertVars>>

Spec == Init /\ [][Next]_vars

-----------------------------------------------------------------------------
(* The navigation highlight on its own: every layout and scroll position *)

\* A scroll event: the debounced handler drops its pending timer and sets a
\* new one.
NavScroll(y) ==
    /\ script = "topnav" => navComputed
    /\ y # scrollY
    /\ scrollY' = y
    /\ navTimer' = TRUE
    /\ navBurstY' = IF navTimer THEN navBurstY ELSE y
    /\ lastEvent' = "scroll"
    /\ UNCHANGED <<dialogVarsButEvent, navSections, innerHeight, activeLinks,
                   navComputed, navCurrent>>
    /\ UNCHANGED <<debVars, formVars, alertVars>>

\* The recompute, with the scroll position of the moment it runs.
NavRecompute ==
    LET r == Recompute(navSections, scrollY)
    IN  /\ activeLinks' = r.active
        /\ navCurrent' = r.current
        /\ navComputed' = TRUE
        /\ lastEvent' = "recompute"
        /\ UNCHANGED <<dialogVarsButEvent, navSections, innerHeight, scrollY,
                       navBurstY>>
        /\ UNCHANGED <<debVars, formVars, alertVars>>

\* The debounce timer fires, but the recompute takes the scroll position of
\* the first event of the burst.
NavTimerFireAtBurstStart ==
    LET r == Recompute(navSections, navBurstY)
    IN  /\ navTimer
        /\ navTimer' = FALSE
        /\ activeLinks' = r.active
        /\ navCurrent' = r.current
        /\ navComputed' = TRUE
        /\ lastEvent' = "recompute"
        /\ UNCHANGED <<dialogVarsButEvent, navSections, innerHeight, scrollY,
                       navBurstY>>
        /\ UNCHANGED <<debVars, formVars, alertVars>>

\* The debounce timer fires.
NavTimerFire ==
    /\ navTimer
    /\ navTimer' = FALSE
    /\ NavRecompute

\* The initial recompute: the "Initial call" at the end of
\* initActiveNavigation (which has just attached the scroll listener), or the
\* DOMContentLoaded listener of script_new.js.
NavStartup ==
    /\ ~ navComputed
    /\ UNCHANGED navTimer
    /\ NavRecompute

\* A click on a navigation entry of the script_new.js page.
NavItemClick(l) == NewClick(NavItem(l))

InitNav ==
    /\ script \in {"topnav", "new"}
    /\ closedPanelsRendered = FALSE
    /\ hasCertModal = TRUE
    /\ hasCertImage = TRUE
    /\ innerWidth \in {MobileMax, MobileMax + 1}
    /\ DialogStart
    /\ ExtStart
    /\ navSections \in Layouts
    /\ innerHeight \in {600, 900}
    /\ scrollY \in ScrollPositions
    /\ navTimer = FALSE
    /\ navBurstY = NoY
    /\ navComputed = FALSE
    /\ navCurrent = <<>>
    /\ activeLinks = {}
    /\ DebStart
    /\ FormStart
    /\ AlertStart

NextNav ==
    \/ \E y \in ScrollPositions : NavScroll(y)
    \/ NavTimerFire
    \/ NavStartup
    \/ \E l \in Links : NavItemClick(l)
    \/ NewClick(Hamburger)

SpecNav == InitNav /\ [][NextNav]_vars

\* A pending debounce timer fires, and a loading page reaches its startup
\* recompute.
SpecNavFair == SpecNav /\ WF_vars(NavTimerFire) /\ WF_vars(NavStartup)

-----------------------------------------------------------------------------
(* The debounced wrappers on their own, against a clock *)

\* A loaded page at rest, for the controllers that do not depend on the
\* dialogs or on the navigation highlight.
PageStart ==
    /\ script \in {"topnav", "new"}
    /\ closedPanelsRendered = FALSE
    /\ hasCertModal = TRUE
    /\ hasCertImage = TRUE
    /\ innerWidth = MobileMax + 1
    /\ DialogStart
    /\ ExtStart
    /\ navSections = <<Sec(<<"a">>, 0, 400), Sec(<<"a", "b">>, 400, 400)>>
    /\ innerHeight = 600
    /\ scrollY = 0
    /\ NavStart

Up(n, cap) == IF n < cap THEN n + 1 ELSE cap
Down(n) == IF n > 0 THEN n - 1 ELSE 0

\* A call of wrapper w with arguments a (an event reaches the listener).
DebCall(w, a) ==
    /\ FreeTimerIds # {}
    /\ LET id == CHOOSE i \in FreeTimerIds : \A j \in FreeTimerIds : i <= j
       IN  /\ debTimers' = executedFunction(debTimers, w, a, id)
           /\ debTimeout' = [debTimeout EXCEPT ![w] = id]
    /\ debSinceCall' = [debSinceCall EXCEPT ![w] = 0]
    /\ debLastArgs' = [debLastArgs EXCEPT
                          ![w] = [args |-> a,
                                  first |-> IF @.calls = 0 THEN a ELSE @.first,
                                  calls |-> Up(@.calls, 2)]]
    /\ lastEvent' = "call"
    /\ UNCHANGED <<debSinceRun, debRun>>
    /\ UNCHANGED <<dialogVarsButEvent, navVars, formVars, alertVars>>

\* Timer t is due and its callback 'later' runs: clearTimeout(timeout), then
\* func(...args) with the arguments of the call that set the timer.
DebFire(t) ==
    /\ t \in debTimers
    /\ t.remaining = 0
    /\ debTimers' = clearTimeout(debTimers \ {t}, debTimeout[t.w])
    /\ debRun' = [w |-> t.w, args |-> t.args,
                  first |-> debLastArgs[t.w].first,
                  calls |-> debLastArgs[t.w].calls]
    /\ debSinceRun' = [debSinceRun EXCEPT ![t.w] = 0]
    /\ debLastArgs' = [debLastArgs EXCEPT ![t.w].calls = 0]
    /\ lastEvent' = "run"
    /\ UNCHANGED <<debTimeout, debSinceCall>>
    /\ UNCHANGED <<dialogVarsButEvent, navVars, formVars, alertVars>>

\* One tick of the clock.  A due timer need not have fired yet: the browser
\* runs a callback no earlier than its delay, possibly later.
DebTick ==
    /\ debTimers' = {[t EXCEPT !.remaining = Down(@)] : t \in debTimers}
    /\ debSinceCall' = [w \in Wrappers |-> Up(debSinceCall[w], Wait(w))]
    /\ debSinceRun' = [w \in Wrappers |-> Up(debSinceRun[w], Wait(w))]
    /\ lastEvent' = "tick"
    /\ UNCHANGED <<debTimeout, debLastArgs, debRun>>
    /\ UNCHANGED <<dialogVarsButEvent, navVars, formVars, alertVars>>

InitDebounce ==
    /\ PageStart
    /\ DebStart
    /\ FormStart
    /\ AlertStart

NextDebounce ==
    \/ \E w \in Wrappers, a \in Args : DebCall(w, a)
    \/ \E t \in debTimers : DebFire(t)
    \/ DebTick

SpecDebounce == InitDebounce /\ [][NextDebounce]_vars

-----------------------------------------------------------------------------
(* The transient notice on its own, against a clock *)

CommitAlert(a) ==
    /\ notices' = a.notices
    /\ alertTimers' = a.timers
    /\ slideDownStyles' = a.sheets

\* A call of showAlert (the function is also exported to other scripts).
ShowAlert(type) ==
    /\ FreeNoticeIds # {}
    /\ CommitAlert(showAlert(AlertSt, type,
                    CHOOSE i \in FreeNoticeIds : \A j \in FreeNoticeIds : i <= j))
    /\ lastEvent' = "alert"
    /\ UNCHANGED <<dialogVarsButEvent, navVars, debVars, formVars>>

\* A due timer of showAlert fires.
AlertFire(t) ==
    /\ t \in alertTimers
    /\ t.remaining = 0
    /\ CommitAlert(alertTimerCallback(AlertSt, t))
    /\ lastEvent' = "timer"
    /\ UNCHANGED <<dialogVarsButEvent, navVars, debVars, formVars>>

AlertTimerFire == \E t \in alertTimers : AlertFire(t)

\* One tick of the clock (a due timer may fire late).
AlertTick ==
    /\ notices' = [i \in 1..Len(notices) |->
                     [notices[i] EXCEPT !.age = Up(@, AlertTicks + FadeTicks)]]
    /\ alertTimers' = {[t EXCEPT !.remaining = Down(@)] : t \in alertTimers}
    /\ UNCHANGED slideDownStyles
    /\ lastEvent' = "tick"
    /\ UNCHANGED <<dialogVarsButEvent, navVars, debVars, formVars>>

InitAlert ==
    /\ PageStart
    /\ script = "topnav"
    /\ DebStart
    /\ FormStart
    /\ AlertStart

NextAlert ==
    \/ \E type \in {"success", "error"} : ShowAlert(type)
    \/ AlertTimerFire
    \/ AlertTick

\* Time passes and due timers fire.
SpecAlert ==
    InitAlert /\ [][NextAlert]_vars
    /\ WF_vars(AlertTick) /\ WF_vars(AlertTimerFire)

-----------------------------------------------------------------------------
(* The contact form: every combination of field values *)

\* Values a visitor may leave in the fields when submitting.
NameValues ==
    { <<>>, <<" ">>, <<"J">>, <<"J", "o">>, <<" ", "J", "o", " ">>,
      <<"a", "&", "b">>, <<"?", "#", "=">> }

EmailValues ==
    { <<>>, <<"a", "@", "b">>, <<"a", "@", "b", ".", "c">>,
      <<" ", "a", "@", "b", ".", "c", " ">>, <<"a", " ", "@", "b", ".", "c">>,
      <<"a", "@", "b", "@", "c", ".", "d">>, <<"@", "b", ".", "c">>,
      <<"a", "@", "b", ".">>, <<"a", "b", ".", "c">>,
      <<"a", "&", "?", "@", "b", ".", "c">>, <<"%", "=", "@", "b", ".", "c">> }

MessageValues ==
    { <<>>, <<"\n", " ">>, <<"h", "i">>,
      <<"h", "e", "l", "l", "o", " ", "t", "h", "e", "r", "e">>,
      <<"a", "&", "b", "=", "c", "?", "#", "%", "2", "6", "\n", "d">>,
      <<"\n", "h", "e", "l", "l", "o", "w", "o", "r", "l", "d", " ">> }

\* The submit event of the contact form, dispatched to the script's listener;
\* then its default action.
Submit ==
    LET x0 == [f |-> FormSt, a |-> AlertSt]
        id == CHOOSE i \in FreeNoticeIds : \A j \in FreeNoticeIds : i <= j
        x == IF script = "topnav" THEN defaultSubmit(submitHandler(x0, id))
             ELSE defaultSubmit(submitHandlerNew(x0))
    IN  /\ submits < MaxSubmits
        /\ submits' = submits + 1
        /\ script = "topnav" => FreeNoticeIds # {}
        /\ fName' = x.f.name
        /\ fEmail' = x.f.email
        /\ fMessage' = x.f.message
        /\ location' = x.f.location
        /\ defaultPrevented' = x.f.prevented
        /\ formLog' = x.f.log
        /\ CommitAlert(x.a)
        /\ lastEvent' = "submit"
        /\ UNCHANGED <<dialogVarsButEvent, navVars, debVars>>

InitForm ==
    /\ PageStart
    /\ DebStart
    /\ AlertStart
    /\ fName \in NameValues
    /\ fEmail \in EmailValues
    /\ fMessage \in MessageValues
    /\ location = <<"page">>
    /\ defaultPrevented = FALSE
    /\ formLog = <<>>
    /\ submits = 0

NextForm ==
    \/ Submit
    \/ AlertTimerFire
    \/ AlertTick

SpecForm == InitForm /\ [][NextForm]_vars

-----------------------------------------------------------------------------
(* Menu, resize and theme: the controls of the page frame, three scripts *)

Scripts == {"topnav", "new", "current"}

Widths == {MobileMax, MobileMax + 1}

NavItems == {NavItem(l) : l \in Links}

\* The elements of the "current" page the model clicks on.
CurElements == {Hamburger, SidebarClose, Body} \cup NavItems

\* A click in the "current" page.  A navigation entry sits in the navbar
\* menu (inside .top-navbar) or in the sidebar; the other elements clicked
\* here are outside .top-navbar, the toggle inside it.
CurClick(e, inNavbar) ==
    /\ script = "current"
    /\ inNavbar => e.k = "navLink"
    /\ Commit(curClickEvent(Fresh, e, inNavbar), "click")

\* The window is resized: the debounced handler (re)starts its timer.
Resize(w) ==
    /\ script \in {"new", "current"}
    /\ w # innerWidth
    /\ innerWidth' = w
    /\ resizeTimer' = TRUE
    /\ lastEvent' = "resize"
    /\ UNCHANGED <<pageVars, bare, handlerVars, windowWidth, themeVars,
                   revealVars, topVars, navVars, debVars, formVars,
                   alertVars>>

\* The resize timer fires: the handler runs with the width of that moment.
ResizeTimerFire ==
    /\ resizeTimer
    /\ Settle(resizeHandler([St EXCEPT !.clickPrevented = FALSE]), "resize timer")
    /\ resizeTimer' = FALSE
    /\ windowWidth' = innerWidth
    /\ UNCHANGED <<innerWidth, themeVars>>

CommitTheme(t, last, ev) ==
    /\ storage' = t.storage
    /\ dataTheme' = t.dataTheme
    /\ themeIcon' = t.themeIcon
    /\ themeLast' = last
    /\ lastEvent' = ev
    /\ UNCHANGED <<pageVars, bare, innerWidth, handlerVars, menuVars,
                   revealVars, topVars, navVars, debVars, formVars,
                   alertVars>>

\* A call of the exported setTheme.
SetTheme(v) ==
    /\ script = "topnav"
    /\ CommitTheme(setTheme(ThemeSt, v),
                   [arg |-> v,
                    times |-> IF themeLast.arg = v /\ themeLast.times > 0
                                 /\ ~ themeLast.reloaded
                              THEN 2 ELSE 1,
                    reloaded |-> FALSE],
                   "setTheme")

\* A click on the theme toggle.
ThemeToggleClick ==
    /\ script = "current"
    /\ LET t == themeToggleClick(ThemeSt)
       IN  CommitTheme(t, [arg |-> t.dataTheme, times |-> 0,
                           reloaded |-> FALSE], "toggle")

\* The page is loaded again: everything is as the markup has it, the script
\* runs, and storage is what the last visit left.
Reload ==
    /\ script \in {"topnav", "current"}
    /\ Settle(LoadedSt, "load")
    /\ UNCHANGED innerWidth
    /\ windowWidth' = innerWidth
    /\ resizeTimer' = FALSE
    /\ LET t == loadTheme(storage)
       IN  /\ storage' = t.storage
           /\ dataTheme' = t.dataTheme
           /\ themeIcon' = t.themeIcon
    /\ themeLast' = [themeLast EXCEPT !.reloaded = TRUE]

InitControls ==
    /\ script \in Scripts
    /\ closedPanelsRendered = FALSE
    /\ hasCertModal = TRUE
    /\ hasCertImage = TRUE
    /\ innerWidth \in Widths
    /\ DialogStart
    /\ bare = {}
    /\ MenuStart
    /\ RevealStart
    /\ TopStart
    /\ navSections \in {<<>>, <<Sec(<<"a">>, 0, 400), Sec(<<"a", "b">>, 400, 400)>>}
    /\ innerHeight = 600
    /\ scrollY = 0
    /\ NavStart
    /\ \E st \in {{}} \cup {{v} : v \in ThemeValues} :
          /\ script = "new" => st = {}
          /\ storage = st
          /\ dataTheme = loadTheme(st).dataTheme
          /\ themeIcon = loadTheme(st).themeIcon
    /\ themeLast = NoCall
    /\ DebStart
    /\ FormStart
    /\ AlertStart

NextControls ==
    \/ \E e \in {Hamburger, Body} \cup NavItems : Click(e)
    \/ \E e \in {Hamburger, Body} \cup NavItems : NewClick(e)
    \/ \E e \in CurElements, b \in BOOLEAN : CurClick(e, b)
    \/ \E w \in Widths : Resize(w)
    \/ ResizeTimerFire
    \/ \E v \in ThemeValues : SetTheme(v)
    \/ ThemeToggleClick
    \/ Reload

SpecControls == InitControls /\ [][NextControls]_vars

-----------------------------------------------------------------------------
(* The reveal watcher on its own *)

\* Entries the watcher holds at most before it calls back.
MaxEntries == 3

CommitReveal(r) ==
    /\ revObserved' = r.observed
    /\ revQueue' = r.queue
    /\ revRevealed' = r.revealed
    /\ UNCHANGED <<pageVars, bare, innerWidth, handlerVars, lastEvent,
                   menuVars, themeVars, topVars, navVars, debVars, formVars,
                   alertVars>>

\* The watcher is given its elements: at the end of initRevealAnimations, or
\* in the DOMContentLoaded listener.
RevAttach ==
    /\ ~ revAttached
    /\ revAttached' = TRUE
    /\ CommitReveal(observeAll(RevealSt, WatchedOrder))
    /\ UNCHANGED <<revIntersecting, revScrolled>>

\* The user scrolls far enough for element e to start or stop intersecting
\* the watcher's root; an observed target gets an entry for the change.
RevScroll(e) ==
    /\ e \in revObserved => Len(revQueue) < MaxEntries
    /\ revIntersecting' = [revIntersecting EXCEPT ![e] = ~ @]
    /\ revScrolled' = TRUE
    /\ CommitReveal([RevealSt EXCEPT !.queue =
           IF e \in revObserved
           THEN Append(@, [target |-> e,
                           isIntersecting |-> ~ revIntersecting[e]])
           ELSE @])
    /\ UNCHANGED revAttached

\* The watcher calls back with the entries it has queued.
RevDeliver ==
    /\ revQueue # <<>>
    /\ CommitReveal(observerCallback([RevealSt EXCEPT !.queue = <<>>], revQueue))
    /\ UNCHANGED <<revAttached, revIntersecting, revScrolled>>

InitReveal ==
    /\ script \in Scripts
    /\ closedPanelsRendered = FALSE
    /\ hasCertModal = TRUE
    /\ hasCertImage = TRUE
    /\ innerWidth = MobileMax + 1
    /\ DialogStart
    /\ bare = {}
    /\ MenuStart
    /\ ThemeStart
    /\ revAttached = FALSE
    /\ revObserved = {}
    /\ revIntersecting \in [Watched -> BOOLEAN]
    /\ revRevealed = {}
    /\ revQueue = <<>>
    /\ revScrolled = FALSE
    /\ TopStart
    /\ navSections = <<Sec(<<"a">>, 0, 400), Sec(<<"a", "b">>, 400, 400)>>
    /\ innerHeight = 600
    /\ scrollY = 0
    /\ NavStart
    /\ DebStart
    /\ FormStart
    /\ AlertStart

NextReveal ==
    \/ RevAttach
    \/ \E e \in Watched : RevScroll(e)
    \/ RevDeliver

\* The script reaches the end of its initialisation (DOMContentLoaded fires),
\* and a watcher with queued entries calls back.
SpecReveal ==
    InitReveal /\ [][NextReveal]_vars /\ WF_vars(RevAttach) /\ WF_vars(RevDeliver)

-----------------------------------------------------------------------------
(* Project panels without a focusable descendant *)

\* A pointer press on the content of such a panel (tabindex="-1") moves focus
\* there; then the click is dispatched.
FocusContent(m) ==
    /\ script = "topnav"
    /\ m \in bare
    /\ Rendered(St, Content(m))
    /\ Commit(clickEvent(Focus(Fresh, Content(m)), Content(m)), "click")

InitBare ==
    /\ script = "topnav"
    /\ closedPanelsRendered = FALSE
    /\ hasCertModal = TRUE
    /\ hasCertImage = TRUE
    /\ innerWidth = MobileMax + 1
    /\ DialogStart
    /\ bare \in (SUBSET Modals) \ {{}}
    /\ MenuStart
    /\ ThemeStart
    /\ RevealStart
    /\ TopStart
    /\ navSections = <<Sec(<<"a">>, 0, 400), Sec(<<"a", "b">>, 400, 400)>>
    /\ innerHeight = 600
    /\ scrollY = 0
    /\ NavStart
    /\ DebStart
    /\ FormStart
    /\ AlertStart

\* The elements the model clicks on: the controls of the panels.
BareElements == {Trigger(m) : m \in Modals} \cup {CloseBtn(m) : m \in Modals}
                \cup {Overlay(m) : m \in Modals}

NextBare ==
    \/ \E e \in BareElements : Click(e)
    \/ \E key \in {"Escape", "Tab"}, shift \in BOOLEAN : KeyDown(key, shift)
    \/ \E m \in Modals : TimerFire(m)
    \/ \E m \in Modals : FocusContent(m)

SpecBare == InitBare /\ [][NextBare]_vars

-----------------------------------------------------------------------------
(* Properties of the dialog controllers *)

OpenPanels == {m \in Modals : active[m]}

NothingOpen == OpenPanels = {} /\ ~ certActive

\* C1: after any sequence of opens and closes at most one project panel
\* carries the 'active' class.
C1_AtMostOnePanelActive == Cardinality(OpenPanels) <= 1

\* C2: a project panel is marked active if and only if activeModal references
\* that very panel (so with activeModal null no panel is active).
C2_ActiveIffActiveModal == \A m \in Modals : active[m] <=> activeModal = m

\* C3: after every event (dispatched to all of its listeners), an active
\* project or certificate panel implies that body scrolling is suspended.
C3_OpenPanelLocksScroll == ~ NothingOpen => overflow = "hidden"

\* C4: once a panel has been closed and every pending focus timer has fired,
\* focus rests on the remembered (focusable) element and lastFocusedElement is
\* cleared.
C4_CloseRestoresFocus ==
    (/\ restored # NONE
     /\ restored.k \in FocusableKinds
     /\ \A m \in Modals : timers[m] = 0)
    => focus = restored /\ lastFocusedElement = NullEl

\* C5: while a project panel is open, a Tab or Shift+Tab key press never
\* leaves focus on an element outside the open panel(s).
C5_TabStaysInPanel ==
    (lastEvent = "Tab" /\ script = "topnav" /\ OpenPanels # {})
    => \E m \in OpenPanels : InPanel(focus, m)

\* C6: an Escape key press leaves every project panel that was active closed
\* (not active, aria-hidden 'true').
C6_EscapeClosesPanel ==
    (lastEvent = "Escape" /\ script = "topnav")
    => \A m \in Modals : ~ active[m] /\ ariaHidden[m] = "true"

EscapePress ==
    \/ \E shift \in BOOLEAN : KeyDown("Escape", shift)
    \/ NewKeyDown("Escape")

DialogFrame == <<activeModal, lastFocusedElement, active, ariaHidden, overflow,
                 focus, certActive, certAriaHidden, certSrc, certAlt>>

\* C7: an Escape key press (which calls closeCurrentModal) while no panel is
\* open changes nothing of the dialog state and throws nothing.
C7_EscapeNoOpWhenClosed ==
    [][(NothingOpen /\ EscapePress) => (UNCHANGED DialogFrame /\ ~ threw')]_vars

\* C7, the part that holds: the same press never changes the dialog state,
\* whether or not a listener throws.
C7_EscapeKeepsStateWhenClosed ==
    [][(NothingOpen /\ EscapePress) => UNCHANGED DialogFrame]_vars

\* C8: after every handler, finished normally or by an exception, the body
\* scroll-lock is set only if an overlay that sets it is still open.
C8_ScrollLockOnlyWhileOpen ==
    overflow = "hidden"
    => \/ OpenPanels # {}
       \/ certActive
       \/ script = "topnav" /\ menuActive

\* C8 witness: a certificate button's listener has thrown half way (image
\* source written, panel missing) and the scroll-lock is not set.
C8_Witness ==
    /\ threw /\ lastEvent = "click"
    /\ certSrc # "" /\ ~ certActive
    /\ overflow = ""

\* C9: when the delayed focus of openModal(m) fires with m open, focus lands
\* on m's close control; and while m stays open without being opened again,
\* the remembered lastFocusedElement does not change.
C9_OpenFocusesAndRemembers ==
    [][\A m \in Modals :
          /\ (TimerFire(m) /\ active[m]) => focus' = CloseBtn(m)
          /\ (active[m] /\ active'[m] /\ traps'[m] = traps[m])
             => lastFocusedElement' = lastFocusedElement]_vars

-----------------------------------------------------------------------------
(* Properties of the navigation highlight *)

\* C10: after each recompute of the active section at most one navigation
\* entry carries the 'active' class, and none when no section matched.
C10_AtMostOneActiveEntry ==
    navComputed
    => /\ Cardinality(activeLinks) <= 1
       /\ (lastEvent = "recompute" /\ navCurrent = <<>>) => activeLinks = {}

\* The reference point of the scroll-sync contract: the viewport top plus a
\* third of the viewport height.
ReferencePoint == scrollY + innerHeight \div 3

\* Entry l targets the section whose extent contains the reference point.
TargetsSectionInView(l) ==
    \E i \in 1..Len(navSections) :
        /\ Href(l) = <<"#">> \o navSections[i].id
        /\ ReferencePoint >= navSections[i].top
        /\ ReferencePoint < navSections[i].top + navSections[i].height

\* C11: in every state, every navigation entry marked active targets the
\* section whose extent [top, top + height) contains the reference point of
\* the current scroll position.
C11_ActiveEntryMatchesSection ==
    \A l \in activeLinks : TargetsSectionInView(l)

ScrollEvent == \E y \in ScrollPositions : NavScroll(y)

\* C13: a recompute run by the debounce timer uses the scroll position of the
\* moment the timer fires; and if scroll events eventually stop, the pending
\* recompute eventually runs, so the entries are those of the final position.
C13_RecomputeUsesFinalPosition ==
    /\ [][NavTimerFire
          => /\ activeLinks' = Recompute(navSections, scrollY').active
             /\ navCurrent' = Recompute(navSections, scrollY').current]_vars
    /\ (<>[][~ ScrollEvent]_vars) => <>[](navComputed /\ ~ navTimer)

\* C13 witness: the timer of a burst has fired after the position had moved
\* on from that of the burst's first event, to one with other entries.
C13_Witness ==
    /\ lastEvent = "recompute" /\ ~ navTimer
    /\ navBurstY # NoY /\ navBurstY # scrollY
    /\ activeLinks = Recompute(navSections, scrollY).active
    /\ activeLinks # Recompute(navSections, navBurstY).active

\* C14: no scroll event is handled before the startup recompute has run, and
\* the startup recompute leaves the entry of the initial scroll position
\* active.
C14_StartupRecomputeFirst ==
    [][/\ ScrollEvent => navComputed
       /\ NavStartup => /\ activeLinks' = Recompute(navSections, scrollY).active
                        /\ \A l \in activeLinks' : TargetsSectionInView(l)']_vars

PendingOf(ts, w) == {t \in ts : t.w = w}

\* C12: each debounced wrapper has at most one pending timer; its function
\* runs only when a full wait has passed since the wrapper's last call and
\* since the function's previous run, and with the arguments of the last call.
C12_DebounceCoalesces ==
    [][/\ \A w \in Wrappers : Cardinality(PendingOf(debTimers', w)) <= 1
       /\ \A t \in debTimers :
             DebFire(t) => /\ debSinceCall[t.w] >= Wait(t.w)
                           /\ debSinceRun[t.w] >= Wait(t.w)
                           /\ t.args = debLastArgs[t.w].args]_vars

\* C12 witness: a wrapped function has run after a burst of several calls,
\* with the arguments of the last of them.
C12_Witness ==
    /\ lastEvent = "run"
    /\ debRun.calls >= 2
    /\ debRun.args # debRun.first
    /\ debRun.args = debLastArgs[debRun.w].args

-----------------------------------------------------------------------------
(* Properties of the contact form *)

WhitespaceOnly(s) == \A k \in 1..Len(s) : IsSpace(s[k])

\* e reads local@domain.tld: three non-empty parts free of white space and
\* of '@', joined by one '@' and a '.'.
Part(s) == s # <<>> /\ \A k \in 1..Len(s) : s[k] \notin {" ", "\n", "@"}

AddressShape(e) ==
    \E i \in 1..Len(e) : \E j \in (i + 1)..Len(e) :
        /\ e[i] = "@" /\ e[j] = "."
        /\ Part(SubSeq(e, 1, i - 1))
        /\ Part(SubSeq(e, i + 1, j - 1))
        /\ Part(SubSeq(e, j + 1, Len(e)))

Has(log, step) == \E k \in 1..Len(log) : log[k] = step

LastNoticeIs(ns, type) == ns # <<>> /\ ns[Len(ns)].type = type

\* C15: a submission whose name or message is empty or white space, or whose
\* address has not the shape local@domain.tld, is rejected: the location does
\* not change, the default action is prevented, an error is shown and the
\* three fields keep their values.
C15_InvalidSubmissionRejected ==
    [][(/\ Submit
        /\ \/ WhitespaceOnly(fName)
           \/ WhitespaceOnly(fMessage)
           \/ ~ AddressShape(trim(fEmail)))
       => /\ location' = location
          /\ defaultPrevented'
          /\ ~ Has(formLog', "invoke")
          /\ Has(formLog', "error")
          /\ script = "topnav" => LastNoticeIs(notices', "error")
          /\ <<fName, fEmail, fMessage>>' = <<fName, fEmail, fMessage>>]_vars

\* C15 witness: the address 'a@b' between a good name and a good message
\* has been submitted and rejected.
C15_Witness ==
    /\ lastEvent = "submit"
    /\ fEmail = <<"a", "@", "b">>
    /\ Len(trim(fName)) >= MinNameLength
    /\ Len(trim(fMessage)) >= MinMessageLength
    /\ Has(formLog, "error")
    /\ location = <<"page">>

\* The submission has been accepted: the mail link of its values was invoked.
AcceptedWithLink ==
    /\ Has(formLog', "invoke")
    /\ location' = mailtoLink(trim(fName), trim(fEmail), trim(fMessage))

\* C16 as stated: in script_topnav_backup.js every submission with a name and
\* a message that are not blank and an address of the shape local@domain.tld
\* is accepted and produces the mail link, whatever the lengths.
C16_PresenceAndShapeSuffice ==
    [][(/\ Submit /\ script = "topnav"
        /\ ~ WhitespaceOnly(fName)
        /\ ~ WhitespaceOnly(fMessage)
        /\ AddressShape(trim(fEmail)))
       => AcceptedWithLink]_vars

\* C16 amended: in script_topnav_backup.js a submission is accepted and
\* produces the mail link if and only if the trimmed name has at least 2
\* characters, the trimmed message at least 10, and the trimmed address has
\* the shape local@domain.tld.
C16_AcceptedIffLongEnough ==
    [][(Submit /\ script = "topnav")
       => (AcceptedWithLink
           <=> /\ Len(trim(fName)) >= MinNameLength
               /\ Len(trim(fMessage)) >= MinMessageLength
               /\ AddressShape(trim(fEmail)))]_vars

\* C16 witness: a submission with a name of just two characters was accepted.
C16_Witness ==
    /\ lastEvent = "submit" /\ script = "topnav"
    /\ \E e \in EmailValues, m \in MessageValues :
          location = mailtoLink(<<"J", "o">>, trim(e), trim(m))

\* decodeURIComponent
RECURSIVE decodeURIComponent(_)
decodeURIComponent(s) ==
    IF s = <<>> THEN <<>>
    ELSE IF Head(s) = "%" /\ Len(s) >= 2
    THEN <<CHOOSE c \in DOMAIN EscapeCode : EscapeCode[c] = s[2]>>
         \o decodeURIComponent(SubSeq(s, 3, Len(s)))
    ELSE <<Head(s)>> \o decodeURIComponent(Tail(s))

Count(s, c) == Cardinality({k \in 1..Len(s) : s[k] = c})

IndexOf(s, c) == CHOOSE k \in 1..Len(s) : s[k] = c

\* link is mailto:...?subject=S&body=B with a single '?' and a single '&',
\* no raw separator or white space inside S and B, and S and B decode to the
\* subject and body texts of the values n, e, m.
LinkCarries(link, n, e, m) ==
    /\ Count(link, "?") = 1
    /\ Count(link, "&") = 1
    /\ LET q == IndexOf(link, "?")
           a == IndexOf(link, "&")
           S == SubSeq(link, q + 3, a - 1)
           B == SubSeq(link, a + 3, Len(link))
       IN  /\ q = 2 /\ q + 2 < a
           /\ SubSeq(link, q + 1, q + 2) = <<"subject", "=">>
           /\ SubSeq(link, a + 1, a + 2) = <<"body", "=">>
           /\ \A k \in 1..Len(S) : S[k] \notin {"&", "?", "#", "=", " ", "\n"}
           /\ \A k \in 1..Len(B) : B[k] \notin {"&", "?", "#", "=", " ", "\n"}
           /\ decodeURIComponent(S) = subjectText(n)
           /\ decodeURIComponent(B) = bodyText(n, e, m)

\* C17: the mail link of every accepted submission has exactly one '?' and
\* one '&', no raw character of a field value that has a meaning in a link,
\* and parameters that decode to the texts made of the field values.
C17_LinkPercentEncoded ==
    [][(Submit /\ script = "topnav" /\ Has(formLog', "invoke"))
       => LinkCarries(location', trim(fName), trim(fEmail), trim(fMessage))]_vars

\* C17 witness: a link was invoked for values full of separators.
C17_Witness ==
    /\ lastEvent = "submit"
    /\ location = mailtoLink(<<"a", "&", "b">>,
                             <<"a", "&", "?", "@", "b", ".", "c">>,
                             <<"a", "&", "b", "=", "c", "?", "#", "%", "2", "6",
                               "\n", "d">>)

\* The four steps of an accepted submission, as the last handler run took
\* them.
SuccessSteps(log) ==
    SelectSeq(log, LAMBDA s : s \in {"build", "invoke", "notice", "reset"})

\* C18: in script_topnav_backup.js the handler of an accepted submission
\* builds the link, invokes it, shows the success notice and clears the form,
\* in this order within the one run; the handler of a rejected one does none
\* of the four.
C18_SuccessStepsInOrder ==
    [][(Submit /\ script = "topnav")
       => IF /\ Len(trim(fName)) >= MinNameLength
             /\ Len(trim(fMessage)) >= MinMessageLength
             /\ AddressShape(trim(fEmail))
          THEN /\ SuccessSteps(formLog')
                  = <<"build", "invoke", "notice", "reset">>
               /\ location'
                  = mailtoLink(trim(fName), trim(fEmail), trim(fMessage))
               /\ LastNoticeIs(notices', "success")
               /\ <<fName, fEmail, fMessage>>' = <<<<>>, <<>>, <<>>>>
          ELSE /\ SuccessSteps(formLog') = <<>>
               /\ location' = location
               /\ ~ LastNoticeIs(notices', "success")
               /\ <<fName, fEmail, fMessage>>' = <<fName, fEmail, fMessage>>]_vars

\* C18 witness: a handler run has gone through the four steps.
C18_Witness ==
    /\ lastEvent = "submit"
    /\ formLog = <<"preventDefault", "build", "invoke", "notice", "reset">>
    /\ location # <<"page">>
    /\ LastNoticeIs(notices, "success")
    /\ fName = <<>> /\ fEmail = <<>> /\ fMessage = <<>>

-----------------------------------------------------------------------------
(* Properties of the transient notice *)

InDocument(id) == \E i \in 1..Len(notices) : notices[i].id = id

\* C19: at most one notice is in the document; a notice leaves the document
\* only when a newer one replaces it or when its full display time has
\* passed, and is faded no earlier than its delay (so no timer of an older
\* notice touches it); and every notice eventually leaves the document.
C19_NoticeTransientAndUnique ==
    /\ [](Len(notices) <= 1)
    /\ [][\A i \in 1..Len(notices) :
            LET n == notices[i]
                after == {notices'[j] : j \in 1..Len(notices')}
            IN  /\ (\A m \in after : m.id # n.id)
                   => \/ lastEvent' \in {"alert", "submit"}
                      \/ n.age >= AlertTicks + FadeTicks
                /\ (~ n.faded /\ \E m \in after : m.id = n.id /\ m.faded)
                   => n.age >= AlertTicks]_vars
    /\ \A id \in NoticeIds : InDocument(id) ~> ~ InDocument(id)

\* C19 witness: a notice that replaced an older one is on display, not
\* faded, while the older notice's timer is due.
C19_Witness ==
    /\ Len(notices) = 1
    /\ ~ notices[1].faded
    /\ notices[1].age < AlertTicks
    /\ \E t \in alertTimers : t.id # notices[1].id /\ t.remaining = 0

-----------------------------------------------------------------------------
(* Properties of the menu controller *)

\* C20: in script_topnav_backup.js, after every handler the menu has the
\* 'active' class iff the menu control has it iff aria-expanded is 'true',
\* and each click on the menu control inverts all three.
C20_MenuStateConsistent ==
    /\ [](script = "topnav"
          => /\ menuActive <=> hamburgerActive
             /\ menuActive <=> ariaExpanded = "true")
    /\ [][Click(Hamburger)
          => /\ menuActive' = ~ menuActive
             /\ hamburgerActive' = ~ hamburgerActive
             /\ (ariaExpanded' = "true") = ~ (ariaExpanded = "true")]_vars

\* C20 witness: a click on the menu control has opened the menu.
C20_Witness ==
    /\ script = "topnav" /\ lastEvent = "click"
    /\ menuActive /\ hamburgerActive /\ ariaExpanded = "true"

-----------------------------------------------------------------------------
(* Properties of the page frame controls: menu glyph, menu closing *)

MenuOpen == menuActive \/ navbarNavActive

\* C21: in the scripts that show a glyph on the menu control (script_new.js
\* and the "current" script), after every handler the glyph is fa-times
\* exactly when a container toggled by the control (sidebar, navbar menu) is
\* open, and fa-bars exactly when none is.
C21_GlyphMatchesMenu ==
    script \in {"new", "current"}
        => /\ menuIcon = "fa-times" <=> MenuOpen
           /\ menuIcon = "fa-bars" <=> ~ MenuOpen

\* A click outside the menu and its control, or on a navigation entry.
OutsideOrEntryClick ==
    \E e \in {Body} \cup NavItems :
        Click(e) \/ NewClick(e) \/ \E b \in BOOLEAN : CurClick(e, b)

\* C22: whenever the menu is open, a click outside the menu and its control,
\* and a click on any navigation entry, leave the menu closed, at every
\* viewport width and for every link target.
C22_OutsideAndEntryClicksClose ==
    [][MenuOpen /\ OutsideOrEntryClick => ~ MenuOpen']_vars

-----------------------------------------------------------------------------
(* Properties of the theme *)

HasTheme == script \in {"topnav", "current"}

\* The persisted preference, 'dark' when none is persisted.
Preference == IF storage = {} THEN "dark" ELSE CHOOSE v \in storage : TRUE

\* C23: after the theme has been set and the page is initialised again, the
\* active theme (data-theme, getCurrentTheme) is the value that was set, and
\* 'dark' when storage holds nothing; at every moment getCurrentTheme returns
\* the persisted preference, or 'dark' if none is persisted.
C23_ThemeRoundTrips ==
    /\ [][Reload => /\ dataTheme' = Preference
                    /\ getCurrentTheme(ThemeSt)' = Preference]_vars
    /\ [](HasTheme => getCurrentTheme(ThemeSt) = Preference)

\* The glyph the toggle shows for a theme.
GlyphFor(theme) == IF theme = "dark" THEN "fa-sun" ELSE "fa-moon"

\* C24: after setTheme(v), and after each click on the theme toggle, storage
\* holds the new theme, data-theme equals it, and the toggle icon is the
\* glyph of that theme (sun for dark, moon for light).
C24_ThemeChangeUpdatesAll ==
    [][/\ \A v \in ThemeValues : SetTheme(v) => dataTheme' = v
       /\ (\E v \in ThemeValues : SetTheme(v)) \/ ThemeToggleClick
            => /\ storage' = {dataTheme'}
               /\ dataTheme' \in {"dark", "light"}
                    => themeIcon' = GlyphFor(dataTheme')]_vars

\* C25: in every reachable state, whatever was stored at startup and whatever
\* setTheme is called with, the persisted preference (when present) and the
\* data-theme marker are 'dark' or 'light'.
C25_ThemeIsDarkOrLight ==
    HasTheme => /\ dataTheme \in {"dark", "light"}
                /\ storage \subseteq {"dark", "light"}

\* C26: for every value v and every prior state, a second setTheme(v) right
\* after a first leaves storage, data-theme and the icon as the first call
\* left them.
C26_SetThemeIdempotent ==
    [][\A v \in ThemeValues :
          SetTheme(v) /\ themeLast.arg = v /\ themeLast.times > 0
                      /\ ~ themeLast.reloaded
              => UNCHANGED <<storage, dataTheme, themeIcon>>]_vars

\* C26 witness: setTheme has just been called twice in a row with a value
\* other than the theme that was active before.
C26_Witness ==
    /\ lastEvent = "setTheme"
    /\ themeLast.times = 2
    /\ themeLast.arg = "light"
    /\ dataTheme = "light"

-----------------------------------------------------------------------------
(* Properties of the reveal watcher *)

\* C27: once an observed element has received its revealed class it keeps
\* the class in every later state, whatever entries and scrolls follow.
C27_RevealedStaysRevealed ==
    [][revRevealed \subseteq revRevealed']_vars

\* C27 witness: an element was revealed and has since been scrolled out of
\* the watcher's root.
C27_Witness ==
    \E e \in Watched :
        e \in revRevealed /\ ~ revIntersecting[e] /\ revScrolled

-----------------------------------------------------------------------------
(* Properties about missing markup *)

\* C29: whatever expected elements are absent, initialisation and every
\* later click and key press complete without an unhandled exception.
C29_NoListenerThrows == ~ threw

-----------------------------------------------------------------------------
(* The animation style sheet *)

\* C31: after any number of showAlert calls the document head holds at most
\* one style element that defines the slideDown animation.
C31_OneSlideDownStyle == slideDownStyles <= 1

-----------------------------------------------------------------------------
(* The focus trap of a project panel *)

\* C32: with focus inside a panel that has a trap installed, a Tab press on
\* the last focusable element of the panel moves focus to the first one and
\* a Shift+Tab press on the first moves it to the last, the default focus
\* move being cancelled in both cases; every other Tab press there is left
\* to the default focus move.
C32_TrapWrapsAtEnds ==
    [][\A shift \in BOOLEAN :
         (/\ focus.k \in PanelKinds
          /\ traps[focus.m] > 0
          /\ lastEvent' = "Tab"
          /\ KeyDown("Tab", shift))
             => LET F == PanelFocusables(focus.m)
                    first == F[1]
                    last == F[Len(F)]
                IN  IF focus = (IF shift THEN first ELSE last)
                    THEN /\ focus' = (IF shift THEN last ELSE first)
                         /\ trapRun' = "acted"
                         /\ ~ threw'
                    ELSE /\ trapRun' = "idle"
                         /\ focus' = defaultTab(St, shift).focus]_vars

\* C32 witness: a Tab press on the last focusable element of the open
\* two-element panel went through the trap and focus is on the first one.
C32_Witness ==
    /\ lastEvent = "Tab"
    /\ trapRun = "acted"
    /\ activeModal = "m1"
    /\ active["m1"]
    /\ focus = CloseBtn("m1")

-----------------------------------------------------------------------------
(* The watcher lets go of what it has revealed *)

\* C33: an element that carries the revealed class is never among the
\* watcher's observed targets, and a later change of its intersection queues
\* no entry for the callback and leaves the class alone.
C33_RevealedNotWatched ==
    /\ [](revRevealed \cap revObserved = {})
    /\ [][\A e \in Watched :
             (RevScroll(e) /\ e \in revRevealed)
                 => /\ revQueue' = revQueue
                    /\ revRevealed' = revRevealed
                    /\ revObserved' = revObserved]_vars

\* C33 witness: a revealed element has left the watcher's root, no entry is
\* queued for it, and the watcher still observes exactly the other elements.
C33_Witness ==
    \E e \in Watched :
        /\ e \in revRevealed
        /\ ~ revIntersecting[e]
        /\ revQueue = <<>>
        /\ revObserved = Watched \ {e}

-----------------------------------------------------------------------------
(* The keydown listeners of a panel *)

\* C34: at any time a panel carries at most one focus-trap keydown listener,
\* however often it has been opened and closed.
C34_OneTrapListener == \A m \in Modals : traps[m] <= 1

-----------------------------------------------------------------------------
(* The certificate panel and its table *)

\* C35: a click on a certificate button whose identifier is not a key of the
\* table leaves the panel, the image source and the scroll lock unchanged; a
\* click on one whose identifier is a key leaves the panel active with the
\* image the table gives for it.
C35_UnknownCertificateNoOp ==
    [][\A c \in CertIds :
         (Click(CertBtn(c)) \/ NewClick(CertBtn(c)))
             => IF c \in DOMAIN certificates
                THEN certActive' /\ certSrc' = certificates[c]
                ELSE UNCHANGED <<certActive, certSrc, overflow>>]_vars

-----------------------------------------------------------------------------
(* The sidebar when the window grows *)

\* C36: when the resize timer fires after the viewport has gone from a
\* mobile width to a desktop width (the last resize before the timer fired),
\* the sidebar is closed and the toggle shows the bars glyph, whenever the
\* earlier resizes and menu toggles happened.
C36_DesktopClosesSidebar ==
    [][(ResizeTimerFire /\ innerWidth > MobileMax)
          => (~ menuActive' /\ menuIcon' = "fa-bars")]_vars

-----------------------------------------------------------------------------
(* Navigation links without a target *)

\* The page has an element that the href of entry l selects.
TargetInPage(l) ==
    \E i \in 1..Len(navSections) : <<"#">> \o navSections[i].id = Href(l)

\* A click on navigation entry l, in any of the scripts.
NavEntryClick(l) ==
    \/ Click(NavItem(l))
    \/ NewClick(NavItem(l))
    \/ \E b \in BOOLEAN : CurClick(NavItem(l), b)

\* C37: a click on a navigation link whose target section is not in the page
\* is not kept from its default navigation and changes neither the active
\* entry nor (for the sidebar of script_new.js, which only this listener
\* closes on such a click) the menu.
C37_MissingTargetLeftAlone ==
    [][\A l \in Links :
         (NavEntryClick(l) /\ ~ TargetInPage(l))
             => /\ ~ clickPrevented'
                /\ activeLinks' = activeLinks
                /\ script = "new" => UNCHANGED <<menuActive, menuIcon>>]_vars

-----------------------------------------------------------------------------
(* The scroll-to-top button: initScrollToTop of script_topnav_backup.js and *)
(* the block of the "current" script                                        *)

\* The button is shown beyond this scroll position (window.scrollY > 300).
ShowAfter == 300

\* The scroll positions the model visits: the top, a little below it, both
\* sides of the threshold, and further down.
TopPositions ==
    {0, ShowAfter \div 3, ShowAfter, ShowAfter + 1, 2 * ShowAfter,
     3 * ShowAfter}

\* The snapshot the button's listeners work on.
TopSt == [display |-> btnDisplay, visible |-> btnVisible,
          ariaHidden |-> btnAriaHidden, timeout |-> scrollTimeout]

\* The scroll listener of initScrollToTop: clearTimeout, then setTimeout of
\* the update, 100 ms later.
scrollListener(b) == [b EXCEPT !.timeout = TRUE]

\* The callback of that timer, with window.scrollY = y when it runs.
scrollTimeoutCallback(b, y) ==
    IF y > ShowAfter
    THEN [b EXCEPT !.display = "flex", !.ariaHidden = "false", !.timeout = FALSE]
    ELSE [b EXCEPT !.display = "none", !.ariaHidden = "true", !.timeout = FALSE]

\* The scroll listener of the "current" script: the class follows the
\* position at once; no attribute is written.
curScrollListener(b, y) == [b EXCEPT !.visible = (y > ShowAfter)]

\* A scroll event at position y reaches the script's listener.
scrollEvent(b, y) ==
    IF script = "topnav" THEN scrollListener(b) ELSE curScrollListener(b, y)

CommitTop(b, y, smooth, ev) ==
    /\ btnDisplay' = b.display
    /\ btnVisible' = b.visible
    /\ btnAriaHidden' = b.ariaHidden
    /\ scrollTimeout' = b.timeout
    /\ smoothToTop' = smooth
    /\ scrollY' = y
    /\ lastEvent' = ev
    /\ UNCHANGED <<pageVars, bare, innerWidth, handlerVars, menuVars,
                   themeVars, revealVars, navSections, innerHeight,
                   activeLinks, navTimer, navComputed, navCurrent, navBurstY,
                   debVars, formVars, alertVars>>

\* The user scrolls to y (this ends a smooth scroll under way).
TopScroll(y) ==
    /\ y # scrollY
    /\ CommitTop(scrollEvent(TopSt, y), y, FALSE, "scroll")

\* The 100 ms timer of the scroll listener fires.
ScrollTimeoutFire ==
    /\ scrollTimeout
    /\ CommitTop(scrollTimeoutCallback(TopSt, scrollY), scrollY, smoothToTop,
                 "update")

\* A click on the button (when it is not hidden): window.scrollTo({top: 0,
\* behavior: 'smooth'}); the scroll events come with the steps.
ScrollButtonClick ==
    /\ IF script = "topnav" THEN btnDisplay # "none" ELSE btnVisible
    /\ CommitTop(TopSt, scrollY, scrollY > 0, "click")

\* One step of the smooth scroll towards the top, with its scroll event.
SmoothStep ==
    /\ smoothToTop
    /\ LET below == {y \in TopPositions : y < scrollY}
           y == CHOOSE v \in below : \A w \in below : w <= v
       IN  CommitTop(scrollEvent(TopSt, y), y, y > 0, "scroll")

\* The two scripts with a scroll-to-top button; the button of the "current"
\* script is in the markup, with or without an aria-hidden attribute.  The
\* page may be loaded scrolled (a reload, a link to a fragment).
InitScrollTop ==
    /\ script \in {"topnav", "current"}
    /\ closedPanelsRendered = FALSE
    /\ hasCertModal = TRUE
    /\ hasCertImage = TRUE
    /\ innerWidth = MobileMax + 1
    /\ DialogStart
    /\ bare = {}
    /\ MenuStart
    /\ ThemeStart
    /\ RevealStart
    /\ btnDisplay = ""
    /\ btnVisible = FALSE
    /\ btnAriaHidden \in {NULL, "true", "false"}
    /\ script = "topnav" => btnAriaHidden = NULL
    /\ scrollTimeout = FALSE
    /\ smoothToTop = FALSE
    /\ navSections = <<Sec(<<"a">>, 0, 400), Sec(<<"a", "b">>, 400, 400)>>
    /\ innerHeight = 600
    /\ scrollY \in TopPositions
    /\ NavStart
    /\ DebStart
    /\ FormStart
    /\ AlertStart

NextScrollTop ==
    \/ \E y \in TopPositions : TopScroll(y)
    \/ ScrollTimeoutFire
    \/ ScrollButtonClick
    \/ SmoothStep

\* A pending timer fires and a smooth scroll goes on.
SpecScrollTop ==
    InitScrollTop /\ [][NextScrollTop]_vars
    /\ WF_vars(ScrollTimeoutFire) /\ WF_vars(SmoothStep)

\* The button is shown: display 'flex' in script_topnav_backup.js, the class
\* 'visible' in the "current" script.
ButtonShown ==
    IF script = "topnav" THEN btnDisplay = "flex" ELSE btnVisible

\* A step in which the visibility of the button is updated.
VisibilityUpdate ==
    \/ ScrollTimeoutFire
    \/ script = "current" /\ (SmoothStep \/ \E y \in TopPositions : TopScroll(y))

\* After each update by script_topnav_backup.js the button is shown exactly
\* when the scroll position is above 300, with aria-hidden 'true' exactly
\* when it is not shown; once scroll events have stopped, the visibility
\* matches the final scroll position for good, in both scripts.
TopnavButtonFollowsScroll ==
    /\ [][(script = "topnav" /\ ScrollTimeoutFire)
             => /\ ButtonShown' <=> scrollY' > ShowAfter
                /\ btnAriaHidden' = "true" <=> ~ ButtonShown']_vars
    /\ (<>[][~ (SmoothStep \/ \E y \in TopPositions : TopScroll(y))]_vars
           => <>[](lastEvent # "load" => (ButtonShown <=> scrollY > ShowAfter)))

\* C38: after each update of the button's visibility the button is shown
\* exactly when the scroll position is above 300 and its aria-hidden is
\* 'true' exactly when it is not shown.
C38_ButtonFollowsScroll ==
    [][VisibilityUpdate
          => /\ ButtonShown' <=> scrollY' > ShowAfter
             /\ btnAriaHidden' = "true" <=> ~ ButtonShown']_vars

====
